---- MODULE Spec2Model ----
(***************************************************************************)
(* Forensiq detection pipeline: ForensicsEngine.analyze and the stages it  *)
(* calls (GraphBuilder, CycleDetector, SmurfingDetector,                   *)
(* ShellNetworkDetector, FalsePositiveFilter, ring merger, ScoringEngine). *)
(*                                                                         *)
(* Conventions of the model                                                *)
(*  - account ids are naturals; their numeric order stands for the         *)
(*    lexicographic order of the id strings;                               *)
(*  - a timestamp is a whole number of hours since a local midnight, so    *)
(*    Date.getHours() is t % 24 and a span in hours is a difference;       *)
(*  - a JS Map is a record [keys, val]: keys is the insertion order;       *)
(*  - null / undefined is the empty sequence <<>>, a present value v is    *)
(*    <<v>>, where a field can be either;                                  *)
(*  - a score is held in thousandths of a point (50 points = 50000), so    *)
(*    that rounding to one decimal place is an operation that can fail;    *)
(*  - real arithmetic is exact (fractions are compared by cross            *)
(*    multiplication).                                                     *)
(***************************************************************************)
EXTENDS Integers, Sequences, FiniteSets, TLC

VARIABLES
    transactions,        \* ForensicsEngine.transactions
    results,             \* ForensicsEngine.results (<<>> is null)
    pc,                  \* position inside analyze()
    graph,               \* GraphBuilder.build() result
    cycles,              \* CycleDetector.detect() result
    smurfingGroups,      \* SmurfingDetector.detect() result
    shellChains,         \* ShellNetworkDetector.detect() result
    fraudRings,          \* raw rings (step 5)
    accountSuspicionMap, \* account_id -> {maxScore, patterns, ringIds}
    legit,               \* FalsePositiveFilter sets
    filteredAccounts,    \* after filterResults and the sort
    filteredRings,       \* after filterResults
    ringsWithIds,        \* merged rings with reassigned ids
    scoredAccounts,      \* ScoringEngine.scoreAllAccounts
    scoredRings,         \* ScoringEngine.scoreAllRings
    run,                 \* which analyze() call this is: "first", "again", "swapped"
    firstInput,          \* the transactions of the first call
    firstResults,        \* the results of the first call
    requests,            \* the POST /api/analyze requests: position, file, transactions, response
    resultsStore,        \* resultsStore of server.js (sessionId -> results)
    now,                 \* Date.now() in milliseconds
    calls,               \* the handler calls served one after the other, with their responses
    modifier             \* one account's tags under _computePatternModifier

vars == <<transactions, results, pc, graph, cycles, smurfingGroups, shellChains,
          fraudRings, accountSuspicionMap, legit, filteredAccounts, filteredRings,
          ringsWithIds, scoredAccounts, scoredRings, run, firstInput, firstResults,
          requests, resultsStore, now, calls, modifier>>

\* no _computePatternModifier call under study
NoModifier == [detectedPatterns |-> <<>>, txCount |-> 0, pm |-> <<>>, pmFirst |-> <<>>]

\* the state of the server around the engine
hostVars == <<requests, resultsStore, now, calls>>

\* the state of one ForensicsEngine
engineVars ==
    <<transactions, results, pc, graph, cycles, smurfingGroups, shellChains,
      fraudRings, accountSuspicionMap, legit, filteredAccounts, filteredRings,
      ringsWithIds, scoredAccounts, scoredRings, run, firstInput, firstResults>>

-----------------------------------------------------------------------------
(* Generic helpers standing for JS built-ins.                              *)

Range(s) == {s[i] : i \in 1..Len(s)}

\* the element of a set of one element; a value computed once stands in a set of
\* its own and is named by the bound variable
The(S) == CHOOSE x \in S : TRUE

Last(s) == s[Len(s)]

Max2(a, b) == IF a >= b THEN a ELSE b

Min2(a, b) == IF a <= b THEN a ELSE b

Abs(a) == IF a < 0 THEN -a ELSE a

RECURSIVE SumSeq(_)
SumSeq(s) == IF s = <<>> THEN 0 ELSE s[1] + SumSeq(Tail(s))

RECURSIVE SumSq(_)
SumSq(s) == IF s = <<>> THEN 0 ELSE s[1] * s[1] + SumSq(Tail(s))

RECURSIVE Gcd(_, _)
Gcd(a, b) == IF b = 0 THEN a ELSE Gcd(b, a % b)

RECURSIVE GcdSeq(_)
GcdSeq(s) == IF s = <<>> THEN 0 ELSE Gcd(s[1], GcdSeq(Tail(s)))

\* the elements of s whose flag is TRUE, in order
RECURSIVE Keep(_, _)
Keep(s, flags) ==
    IF s = <<>> THEN <<>>
    ELSE LET init == Keep(SubSeq(s, 1, Len(s) - 1), SubSeq(flags, 1, Len(s) - 1))
         IN  IF flags[Len(s)] THEN Append(init, Last(s)) ELSE init

\* Array.prototype.filter
FilterSeq(s, P(_)) == Keep(s, [i \in 1..Len(s) |-> P(s[i])])

\* Array.prototype.map
MapSeq(s, F(_)) == [i \in 1..Len(s) |-> F(s[i])]

\* [...new Set(s)]: first occurrences, in order
Dedup(s) ==
    LET firsts == {i \in 1..Len(s) : \A j \in 1..(i - 1) : s[j] # s[i]}
    IN  [k \in 1..Cardinality(firsts) |->
            s[CHOOSE i \in firsts : Cardinality({j \in firsts : j <= i}) = k]]

\* Array.prototype.sort((a, b) => key(a) - key(b)) is stable: the positions of
\* keys in ascending order of key, equal keys in their original order
RECURSIVE InsertIdx(_, _, _)
InsertIdx(idx, i, keys) ==
    IF idx = <<>> THEN <<i>>
    ELSE IF keys[i] < keys[Last(idx)]
         THEN Append(InsertIdx(SubSeq(idx, 1, Len(idx) - 1), i, keys), Last(idx))
         ELSE Append(idx, i)

RECURSIVE SortIdx(_, _)
SortIdx(keys, n) == IF n = 0 THEN <<>> ELSE InsertIdx(SortIdx(keys, n - 1), n, keys)

SortAsc(s, Key(_)) ==
    LET keys == [i \in 1..Len(s) |-> Key(s[i])]
        idx  == SortIdx(keys, Len(s))
    IN  [i \in 1..Len(s) |-> s[idx[i]]]

SortDesc(s, Key(_)) ==
    LET keys == [i \in 1..Len(s) |-> 0 - Key(s[i])]
        idx  == SortIdx(keys, Len(s))
    IN  [i \in 1..Len(s) |-> s[idx[i]]]

Ident(x) == x

SortNum(s) == SortAsc(s, Ident)

\* Map.set on a [keys, val] map
MapSet(m, k, v) ==
    IF k \in DOMAIN m.val
    THEN [keys |-> m.keys, val |-> [m.val EXCEPT ![k] = v]]
    ELSE [keys |-> Append(m.keys, k), val |-> (k :> v) @@ m.val]

EmptyMap == [keys |-> <<>>, val |-> <<>>]

\* Math.round(x) for x = num / den, den > 0: floor(x + 1/2)
RoundDiv(num, den) == (2 * num + den) \div (2 * den)

\* Math.round(x * 10) / 10 for x = num / den points, in thousandths of a point
Round1(num, den) == 100 * RoundDiv(10 * num, den)

-----------------------------------------------------------------------------
(* GraphBuilder (graphBuilder.js).                                         *)

\* Map.get(k) || []
GetOr(m, k) == IF k \in DOMAIN m.val THEN m.val[k] ELSE <<>>

\* "if (!map.has(k)) map.set(k, [])"
Ensure(m, k) == IF k \in DOMAIN m.val THEN m ELSE MapSet(m, k, <<>>)

\* a push that drops an edge whose transaction id is below that of the edge pushed
\* before it
PushInIdOrder(m, k, e) ==
    IF GetOr(m, k) # <<>> /\ e.txId < Last(GetOr(m, k)).txId
    THEN m
    ELSE MapSet(Ensure(m, k), k, Append(GetOr(m, k), e))

\* map.get(k).push(e), after Ensure
Push(m, k, e) == MapSet(Ensure(m, k), k, Append(GetOr(m, k), e))

\* an iteration that creates a key only where it pushes an edge
AddTransactionPushOnly(g, tx) ==
    LET fwd == [to |-> tx.receiver_id, amount |-> tx.amount,
                timestamp |-> tx.timestamp, txId |-> tx.transaction_id]
        bwd == [from |-> tx.sender_id, amount |-> tx.amount,
                timestamp |-> tx.timestamp, txId |-> tx.transaction_id]
        edge == [source |-> tx.sender_id, target |-> tx.receiver_id, amount |-> tx.amount,
                 timestamp |-> tx.timestamp, txId |-> tx.transaction_id]
    IN  [edges          |-> Append(g.edges, edge),
         adjacencyList  |-> Push(g.adjacencyList, tx.sender_id, fwd),
         reverseAdjList |-> Push(g.reverseAdjList, tx.receiver_id, bwd)]

\* one iteration of the loop over this.transactions
AddTransaction(g, tx) ==
    LET fwd == [to |-> tx.receiver_id, amount |-> tx.amount,
                timestamp |-> tx.timestamp, txId |-> tx.transaction_id]
        bwd == [from |-> tx.sender_id, amount |-> tx.amount,
                timestamp |-> tx.timestamp, txId |-> tx.transaction_id]
        edge == [source |-> tx.sender_id, target |-> tx.receiver_id, amount |-> tx.amount,
                 timestamp |-> tx.timestamp, txId |-> tx.transaction_id]
    IN  [edges          |-> Append(g.edges, edge),
         adjacencyList  |-> Ensure(Push(g.adjacencyList, tx.sender_id, fwd), tx.receiver_id),
         reverseAdjList |-> Ensure(Push(g.reverseAdjList, tx.receiver_id, bwd), tx.sender_id)]

RECURSIVE AddAll(_, _)
AddAll(g, txs) ==
    IF txs = <<>> THEN g
    ELSE AddTransaction(AddAll(g, SubSeq(txs, 1, Len(txs) - 1)), Last(txs))

\* every edge counted as one unit of money
EdgeUnit(e) == 1

EdgeAmount(e) == e.amount

EdgeTimestamp(e) == e.timestamp

EdgeFrom(e) == e.from

EdgeTo(e) == e.to

\* the smallest difference of consecutive timestamps; <<>> stands for null
MinTimeDelta(ts) ==
    IF Len(ts) < 2 THEN <<>>
    ELSE LET deltas == {ts[i] - ts[i - 1] : i \in 2..Len(ts)}
         IN  <<CHOOSE d \in deltas : \A e \in deltas : d <= e>>

\* totalReceived > 0 ? totalSent / totalReceived : 0, as a fraction
ThroughputRatio(totalSent, totalReceived) ==
    IF totalReceived > 0 THEN [num |-> totalSent, den |-> totalReceived]
    ELSE [num |-> 0, den |-> 1]

\* the metadata record of one node
NodeMeta(outEdges, inEdges) ==
    LET totalSent     == SumSeq(MapSeq(outEdges, EdgeAmount))
        totalReceived == SumSeq(MapSeq(inEdges, EdgeAmount))
        allTimestamps == SortNum(MapSeq(outEdges, EdgeTimestamp) \o MapSeq(inEdges, EdgeTimestamp))
    IN  [totalSent       |-> totalSent,
         totalReceived   |-> totalReceived,
         uniqueSenders   |-> Cardinality(Range(MapSeq(inEdges, EdgeFrom))),
         uniqueReceivers |-> Cardinality(Range(MapSeq(outEdges, EdgeTo))),
         txCount         |-> Len(outEdges) + Len(inEdges),
         outDegree       |-> Len(outEdges),
         inDegree        |-> Len(inEdges),
         allTimestamps   |-> allTimestamps,
         minTimeDeltaMs  |-> MinTimeDelta(allTimestamps),
         throughputRatio |-> ThroughputRatio(totalSent, totalReceived)]

\* GraphBuilder.build()
GraphBuild(txs) ==
    LET g == AddAll([adjacencyList |-> EmptyMap, reverseAdjList |-> EmptyMap, edges |-> <<>>], txs)
        nodes == g.adjacencyList.keys
    IN  [adjacencyList  |-> g.adjacencyList,
         reverseAdjList |-> g.reverseAdjList,
         nodeMetadata   |-> [keys |-> nodes,
                             val  |-> [n \in Range(nodes) |->
                                        NodeMeta(GetOr(g.adjacencyList, n),
                                                 GetOr(g.reverseAdjList, n))]],
         edges          |-> g.edges,
         nodes          |-> nodes]

-----------------------------------------------------------------------------
(* CycleDetector (cycleDetector.js).                                       *)

MIN_CYCLE == 3

MAX_CYCLE == 5

MAX_RESULTS == 500

MAX_OUT_DEGREE == 30

\* the step into next without the test of its out-degree
CycleMayEnterAnyDegree(adj, startNode, path, next) ==
    /\ next \notin Range(path)
    /\ Len(path) < MAX_CYCLE
    /\ next >= startNode

\* may the search step from the path into next (lines 56-61)
CycleMayEnter(adj, startNode, path, next) ==
    /\ next \notin Range(path)
    /\ Len(path) < MAX_CYCLE
    /\ next >= startNode
    /\ ~(Len(GetOr(adj, next)) > MAX_OUT_DEGREE)

\* a results array that no length fills
NeverFull(res) == Len(res) < 0

\* "results.length >= maxResults" (lines 25, 42, 46)
ResultsFull(res) == Len(res) >= MAX_RESULTS

\* CycleDetector._dfs: cycleDfs is the call, cycleDfsLoop the for loop from edge k on;
\* both return the results array
RECURSIVE cycleDfs(_, _, _, _)
RECURSIVE cycleDfsLoop(_, _, _, _, _)
cycleDfs(adj, startNode, path, res) ==
    IF Len(path) > MAX_CYCLE \/ ResultsFull(res) THEN res
    ELSE cycleDfsLoop(adj, startNode, path, 1, res)

cycleDfsLoop(adj, startNode, path, k, res) ==
    LET neighbors == GetOr(adj, Last(path)) IN
    IF k > Len(neighbors) \/ ResultsFull(res) THEN res
    ELSE LET next == neighbors[k].to IN
         IF next = startNode /\ Len(path) >= MIN_CYCLE
         THEN cycleDfsLoop(adj, startNode, path, k + 1, Append(res, path))
         ELSE IF CycleMayEnter(adj, startNode, path, next)
         THEN cycleDfsLoop(adj, startNode, path, k + 1,
                           cycleDfs(adj, startNode, Append(path, next), res))
         ELSE cycleDfsLoop(adj, startNode, path, k + 1, res)

\* the loop over the sorted start nodes in detect()
RECURSIVE cycleSeeds(_, _, _)
cycleSeeds(adj, nodes, res) ==
    IF nodes = <<>> \/ ResultsFull(res) THEN res
    ELSE IF Len(GetOr(adj, nodes[1])) > MAX_OUT_DEGREE
         THEN cycleSeeds(adj, Tail(nodes), res)
         ELSE cycleSeeds(adj, Tail(nodes), cycleDfs(adj, nodes[1], <<nodes[1]>>, res))

\* CycleDetector._canonicalize: rotate so that the first smallest element leads
Canonicalize(cycle) ==
    LET minIdx == CHOOSE i \in 1..Len(cycle) :
                    /\ \A j \in 1..Len(cycle) : cycle[i] <= cycle[j]
                    /\ \A j \in 1..(i - 1) : cycle[j] > cycle[i]
    IN  SubSeq(cycle, minIdx, Len(cycle)) \o SubSeq(cycle, 1, minIdx - 1)

\* a deduplication that keeps every cycle
KeepAllCycles(cs) == cs

\* the loop of _deduplicateCycles over cs[lo..hi]: the cycles whose canonical form
\* (canon[i] for cs[i]) is not yet in seen, i.e. is that of no earlier cycle
RECURSIVE firstOfEachForm(_, _, _, _)
firstOfEachForm(cs, canon, lo, hi) ==
    IF lo > hi THEN <<>>
    ELSE IF lo = hi
         THEN IF \E j \in 1..(lo - 1) : canon[j] = canon[lo] THEN <<>> ELSE <<cs[lo]>>
         ELSE firstOfEachForm(cs, canon, lo, (lo + hi) \div 2)
                 \o firstOfEachForm(cs, canon, ((lo + hi) \div 2) + 1, hi)

\* CycleDetector._deduplicateCycles: the first cycle of each canonical form
DeduplicateCycles(cs) ==
    firstOfEachForm(cs, [i \in 1..Len(cs) |-> Canonicalize(cs[i])], 1, Len(cs))

\* CycleDetector.detect()
CycleDetect(adj) == DeduplicateCycles(cycleSeeds(adj, SortNum(adj.keys), <<>>))

\* the coefficient of variation of xs (0 when the mean is 0) is below c / d;
\* cv^2 = (n * sum(x^2) - sum(x)^2) / sum(x)^2, and cv does not change when every
\* x is divided by a common factor
CvLess(xs, c, d) ==
    LET g  == GcdSeq(xs)
        ys == [i \in 1..Len(xs) |-> IF g = 0 THEN 0 ELSE xs[i] \div g]
        s  == SumSeq(ys)
    IN  \/ s = 0
        \/ d * d * (Len(ys) * SumSq(ys) - s * s) < c * c * s * s

\* the coefficient of variation of xs is above c / d
CvGreater(xs, c, d) ==
    LET g  == GcdSeq(xs)
        ys == [i \in 1..Len(xs) |-> IF g = 0 THEN 0 ELSE xs[i] \div g]
        s  == SumSeq(ys)
    IN  /\ s # 0
        /\ d * d * (Len(ys) * SumSq(ys) - s * s) > c * c * s * s

\* edges.find(e => e.to === to) for every hop of the cycle: the first such edge
CycleEdges(adj, cycle) ==
    LET hop(i) == LET from == cycle[i]
                      to   == cycle[(i % Len(cycle)) + 1]
                      es   == GetOr(adj, from)
                  IN  FilterSeq(es, LAMBDA e : e.to = to)
        found  == FilterSeq([i \in 1..Len(cycle) |-> hop(i)], LAMBDA h : h # <<>>)
    IN  [i \in 1..Len(found) |-> found[i][1]]

\* CycleDetector.scoreCycle, in points
ScoreCycle(g, cycle) ==
    LET es      == CycleEdges(g.adjacencyList, cycle)
        amounts == MapSeq(es, EdgeAmount)
        sorted  == SortNum(MapSeq(es, EdgeTimestamp))
        span    == Last(sorted) - sorted[1]
        low     == Cardinality({i \in 1..Len(cycle) :
                       /\ cycle[i] \in DOMAIN g.nodeMetadata.val
                       /\ g.nodeMetadata.val[cycle[i]].txCount <= 5})
        score   == 50
                   + (IF Len(cycle) = 3 THEN 15 ELSE IF Len(cycle) = 4 THEN 10 ELSE 5)
                   + (IF Len(amounts) > 0
                      THEN IF CvLess(amounts, 1, 10) THEN 15
                           ELSE IF CvLess(amounts, 3, 10) THEN 10
                           ELSE IF CvLess(amounts, 5, 10) THEN 5 ELSE 0
                      ELSE 0)
                   + (IF Len(sorted) > 1
                      THEN IF span < 24 THEN 15
                           ELSE IF span < 72 THEN 10
                           ELSE IF span < 168 THEN 5 ELSE 0
                      ELSE 0)
                   + (IF 2 * low > Len(cycle) THEN 10 ELSE 0)
    IN  Min2(100, score)

-----------------------------------------------------------------------------
(* ShellNetworkDetector (shellDetector.js).                                *)

MAX_CHAIN_LENGTH == 7

MIN_CHAIN_LENGTH == 4

SHELL_TX_THRESHOLD == 3

AMOUNT_COHERENCE_MAX_DROP == 10000

\* a shell predicate that admits a single transaction only
IsSingleUseMeta(meta) ==
    meta.txCount <= 1 /\ meta.inDegree >= 1 /\ meta.outDegree >= 1

\* the shell predicate of detect() (line 25)
IsShellMeta(meta) ==
    meta.txCount <= SHELL_TX_THRESHOLD /\ meta.inDegree >= 1 /\ meta.outDegree >= 1

\* shellNodes, in the insertion order of nodeMetadata
ShellNodes(g) == FilterSeq(g.nodeMetadata.keys, LAMBDA n : IsShellMeta(g.nodeMetadata.val[n]))

\* ShellNetworkDetector._classifyAmountPattern
ClassifyAmountPattern(amounts) ==
    IF Len(amounts) < 2 THEN "mixed"
    ELSE LET idx      == 2..Len(amounts)
             allEqual == \A i \in idx : ~(100 * Abs(amounts[i] - amounts[i - 1]) > amounts[i - 1])
             decay    == Cardinality({i \in idx : /\ 100 * amounts[i] >= 80 * amounts[i - 1]
                                                  /\ 100 * amounts[i] < 99 * amounts[i - 1]})
         IN  IF allEqual THEN "exact_passthrough"
             ELSE IF 2 * decay >= Len(amounts) - 1 THEN "gradual_decay"
             ELSE "mixed"

\* ShellNetworkDetector._scoreChain, in points
ScoreChain(g, chain, amounts, timestamps) ==
    LET pattern    == ClassifyAmountPattern(amounts)
        idx        == 2..Len(timestamps)
        sequential == \A i \in idx : ~(timestamps[i] - timestamps[i - 1] < 0)
        totalTime  == SumSeq([i \in 1..(Len(timestamps) - 1) |->
                                 Abs(timestamps[i + 1] - timestamps[i])])
        shells     == SubSeq(chain, 2, Len(chain) - 1)
        veryLow    == Cardinality({i \in 1..Len(shells) :
                          /\ shells[i] \in DOMAIN g.nodeMetadata.val
                          /\ g.nodeMetadata.val[shells[i]].txCount = 2})
        score      == 45
                      + (IF Len(chain) >= 6 THEN 20 ELSE IF Len(chain) >= 5 THEN 15
                         ELSE IF Len(chain) >= 4 THEN 10 ELSE 5)
                      + (IF Len(amounts) >= 2
                         THEN IF pattern = "exact_passthrough" THEN 15
                              ELSE IF pattern = "gradual_decay" THEN 20 ELSE 10
                         ELSE 0)
                      + (IF Len(timestamps) >= 2 /\ sequential
                         THEN IF totalTime < 24 THEN 15
                              ELSE IF totalTime < 72 THEN 10
                              ELSE IF totalTime < 168 THEN 5 ELSE 0
                         ELSE 0)
                      + (IF Len(shells) > 0 /\ 2 * veryLow > Len(shells) THEN 10 ELSE 0)
    IN  Min2(100, score)

\* a coherence test that only rejects growing amounts
AmountNotGrowing(prevAmount, amount) == ~(amount > prevAmount)

\* the amount-coherence test of _traceShellChain (lines 75-79): may the hop be taken
AmountCoherent(prevAmount, amount) ==
    /\ ~(prevAmount - amount > AMOUNT_COHERENCE_MAX_DROP)
    /\ ~(amount > prevAmount)

\* the chain record pushed at lines 96-105
ShellChainRecord(g, path, amounts, timestamps) ==
    [chain         |-> path,
     shellAccounts |-> SubSeq(path, 2, Len(path) - 1),
     amounts       |-> amounts,
     timestamps    |-> timestamps,
     amountPattern |-> ClassifyAmountPattern(amounts),
     score         |-> ScoreChain(g, path, amounts, timestamps)]

\* ShellNetworkDetector._traceShellChain: traceShellChain is the call, traceLoop the
\* for loop from out-edge k of the current node on; both return this.shellChains
RECURSIVE traceShellChain(_, _, _, _, _, _)
RECURSIVE traceLoop(_, _, _, _, _, _, _)
traceShellChain(g, shells, path, amounts, timestamps, acc) ==
    IF Len(path) >= MAX_CHAIN_LENGTH THEN acc
    ELSE traceLoop(g, shells, path, amounts, timestamps, 1, acc)

traceLoop(g, shells, path, amounts, timestamps, k, acc) ==
    LET outEdges == GetOr(g.adjacencyList, Last(path)) IN
    IF k > Len(outEdges) THEN acc
    ELSE LET edge == outEdges[k]
             next == edge.to
         IN  IF \/ next \in Range(path)
                \/ next \notin DOMAIN g.nodeMetadata.val
                \/ ~AmountCoherent(Last(amounts), edge.amount)
             THEN traceLoop(g, shells, path, amounts, timestamps, k + 1, acc)
             ELSE LET path2 == Append(path, next)
                      amts2 == Append(amounts, edge.amount)
                      ts2   == Append(timestamps, edge.timestamp)
                      inter == SubSeq(path2, 2, Len(path2) - 1)
                      acc2  == IF next \in shells
                               THEN traceShellChain(g, shells, path2, amts2, ts2, acc)
                               ELSE IF /\ Len(inter) >= 1
                                       /\ Len(path2) >= MIN_CHAIN_LENGTH
                                       /\ \A i \in 1..Len(inter) : inter[i] \in shells
                                    THEN Append(acc, ShellChainRecord(g, path2, amts2, ts2))
                                    ELSE acc
                  IN  traceLoop(g, shells, path, amounts, timestamps, k + 1, acc2)

\* the two loops of detect(): shell node number i, its in-edge number k
RECURSIVE shellStarts(_, _, _, _, _)
shellStarts(g, shellSeq, i, k, acc) ==
    IF i > Len(shellSeq) THEN acc
    ELSE LET shellNode == shellSeq[i]
             inEdges   == GetOr(g.reverseAdjList, shellNode)
         IN  IF k > Len(inEdges) THEN shellStarts(g, shellSeq, i + 1, 1, acc)
             ELSE LET edge == inEdges[k]
                      startNode == edge.from
                  IN  IF \/ startNode \notin DOMAIN g.nodeMetadata.val
                         \/ startNode \in Range(shellSeq)
                      THEN shellStarts(g, shellSeq, i, k + 1, acc)
                      ELSE shellStarts(g, shellSeq, i, k + 1,
                               traceShellChain(g, Range(shellSeq), <<startNode, shellNode>>,
                                               <<edge.amount>>, <<edge.timestamp>>, acc))

\* ShellNetworkDetector._deduplicateChains: the first chain of each node sequence
RECURSIVE DeduplicateChains(_)
DeduplicateChains(cs) ==
    IF cs = <<>> THEN <<>>
    ELSE LET init == DeduplicateChains(SubSeq(cs, 1, Len(cs) - 1))
         IN  IF \E i \in 1..Len(init) : init[i].chain = Last(cs).chain
             THEN init ELSE Append(init, Last(cs))

\* ShellNetworkDetector.detect()
ShellDetect(g) ==
    LET shellSeq == ShellNodes(g)
    IN  IF shellSeq = <<>> THEN <<>>
        ELSE DeduplicateChains(shellStarts(g, shellSeq, 1, 1, <<>>))

-----------------------------------------------------------------------------
(* SmurfingDetector (smurfingDetector.js).                                 *)

FAN_THRESHOLD == 10

SMURF_EMIT_SCORE == 40

\* Date.getHours() of a timestamp
HourOf(ts) == ts % 24

\* how many elements of s satisfy P
CountIf(s, P(_)) == Cardinality({i \in 1..Len(s) : P(s[i])})

\* the differences of consecutive elements
Deltas(ts) == [i \in 1..(Len(ts) - 1) |-> ts[i + 1] - ts[i]]

\* last - first of a sorted, non-empty array
Window(sorted) == Last(sorted) - sorted[1]

\* SmurfingDetector._scoreStructural
ScoreStructural(fanDegree) ==
    IF fanDegree >= 30 THEN 25
    ELSE IF fanDegree >= 20 THEN 20
    ELSE IF fanDegree >= 15 THEN 15
    ELSE 10

\* SmurfingDetector._scoreTemporalBurst
ScoreTemporalBurst(ts) ==
    IF Len(ts) < 3 THEN 0
    ELSE LET w == Window(ts) IN
         IF w < 6 /\ Len(ts) >= 10 THEN 25
         ELSE IF w < 12 /\ Len(ts) >= 10 THEN 22
         ELSE IF w > 0 /\ w < 24 /\ CvLess(Deltas(ts), 3, 10) THEN 20
         ELSE IF w < 24 THEN 12
         ELSE IF w < 72 THEN 6
         ELSE 0

\* SmurfingDetector._scoreOffHours
ScoreOffHours(ts) ==
    IF Len(ts) < 5 THEN 0
    ELSE LET off == CountIf(ts, LAMBDA x : HourOf(x) >= 23 \/ HourOf(x) <= 4) IN
         IF 10 * off > 7 * Len(ts) THEN 15
         ELSE IF 2 * off > Len(ts) THEN 10
         ELSE IF 10 * off > 3 * Len(ts) THEN 5
         ELSE 0

\* total / Math.max(window, 0.1) > v, for a window of whole hours
VelocityAbove(total, w, v) == IF w = 0 THEN 10 * total > v ELSE total > v * w

\* SmurfingDetector._scoreVelocity
ScoreVelocity(amounts, ts) ==
    IF Len(ts) < 2 THEN 0
    ELSE LET total == SumSeq(amounts)
             w     == Window(ts)
         IN  IF VelocityAbove(total, w, 5000) THEN 20
             ELSE IF VelocityAbove(total, w, 2000) THEN 15
             ELSE IF VelocityAbove(total, w, 1000) THEN 10
             ELSE IF VelocityAbove(total, w, 500) THEN 5
             ELSE 0

\* Math.round((a % 1) * 100) !== 0; amounts of the model are whole
HasCents(a) == RoundDiv((a % 1) * 100, 1) # 0

\* SmurfingDetector._scoreBehavioralAmounts
ScoreBehavioralAmounts(amounts) ==
    IF Len(amounts) < 5 THEN 0
    ELSE LET n == Len(amounts)
             structuring == CountIf(amounts, LAMBDA a : a >= 8000 /\ a < 10000)
             midRange    == CountIf(amounts, LAMBDA a : a >= 200 /\ a <= 3000)
             decimals    == CountIf(amounts, HasCents)
             score == (IF 10 * structuring > 3 * n THEN 8 ELSE 0)
                      + (IF /\ ~CvLess(amounts, 2, 10)
                            /\ ~CvGreater(amounts, 6, 10)
                            /\ 10 * midRange > 6 * n
                         THEN 5 ELSE 0)
                      - (IF 10 * decimals > 7 * n THEN 5 ELSE 0)
         IN  Max2(0, Min2(15, score))

\* SmurfingDetector._scoreThroughput
ScoreThroughput(g, node) ==
    IF node \notin DOMAIN g.nodeMetadata.val THEN 0
    ELSE LET meta == g.nodeMetadata.val[node]
             r    == meta.throughputRatio
         IN  IF /\ 10 * r.num > 7 * r.den
                /\ 10 * r.num < 13 * r.den
                /\ meta.totalReceived > 0
                /\ meta.totalSent > 0
             THEN 10 ELSE 0

\* the common intervals of _legitimacyPenalty, in hours
PenaltyIntervals == <<24, 7 * 24, 14 * 24, 30 * 24>>

\* more than num/den of the deltas lie strictly between lo/100 and hi/100 of some
\* interval of the list
RegularSchedule(deltas, intervals, lo, hi, num, den) ==
    \E k \in 1..Len(intervals) :
        den * CountIf(deltas, LAMBDA d : /\ 100 * d > lo * intervals[k]
                                         /\ 100 * d < hi * intervals[k])
            > num * Len(deltas)

\* the largest number of equal elements
MaxFreq(xs) ==
    LET counts == {CountIf(xs, LAMBDA y : y = xs[i]) : i \in 1..Len(xs)}
    IN  CHOOSE c \in counts : \A d \in counts : c >= d

\* how many receivers are also senders
Overlap(senders, receivers) == Cardinality(receivers \cap senders)

Senders(g, node) == Range(MapSeq(GetOr(g.reverseAdjList, node), EdgeFrom))

Receivers(g, node) == Range(MapSeq(GetOr(g.adjacencyList, node), EdgeTo))

\* SmurfingDetector._legitimacyPenalty
LegitimacyPenalty(g, node, ts, amounts, patternType) ==
    IF node \notin DOMAIN g.nodeMetadata.val THEN 0
    ELSE LET senders   == Senders(g, node)
             receivers == Receivers(g, node)
         IN    (IF Len(ts) >= 2
                THEN (IF Window(ts) > 72 THEN 10 ELSE 0)
                     + (IF Window(ts) > 168 THEN 10 ELSE 0)
                     + (IF Window(ts) > 720 THEN 15 ELSE 0)
                ELSE 0)
             + (IF /\ Len(ts) >= 5
                   /\ 10 * CountIf(ts, LAMBDA x : HourOf(x) >= 8 /\ HourOf(x) <= 18) > 7 * Len(ts)
                THEN 10 ELSE 0)
             + (IF Len(ts) >= 5 /\ RegularSchedule(Deltas(ts), PenaltyIntervals, 80, 120, 1, 2)
                THEN 15 ELSE 0)
             + (IF Len(amounts) >= 5 /\ 10 * MaxFreq(amounts) > 4 * Len(amounts)
                THEN 10 ELSE 0)
             + (IF /\ patternType = "fan_in"
                   /\ Cardinality(receivers) <= 5
                   /\ Cardinality(senders) >= 15
                   /\ 10 * Overlap(senders, receivers) < Max2(Cardinality(senders), 1)
                THEN 15 ELSE 0)
             + (IF /\ patternType = "fan_out"
                   /\ Cardinality(senders) <= 5
                   /\ Cardinality(receivers) >= 10
                   /\ Overlap(senders, receivers) = 0
                THEN 10 ELSE 0)

TxTimestamp(t) == t.timestamp

TxAmount(t) == t.amount

TxCounterparty(t) == t.counterparty

\* SmurfingDetector._computeSmurfScore, in points
ComputeSmurfScore(g, node, txs, patternType) ==
    IF txs = <<>> THEN 0
    ELSE LET amounts == MapSeq(txs, TxAmount)
             ts      == SortNum(MapSeq(txs, TxTimestamp))
             score   == ScoreStructural(Cardinality(Range(MapSeq(txs, TxCounterparty))))
                        + ScoreTemporalBurst(ts)
                        + ScoreOffHours(ts)
                        + ScoreVelocity(amounts, ts)
                        + ScoreBehavioralAmounts(amounts)
                        + ScoreThroughput(g, node)
                        - LegitimacyPenalty(g, node, ts, amounts, patternType)
         IN  Max2(0, Min2(100, score))

\* SmurfingDetector._timeWindowHours: <<>> is null, else tenths of an hour
TimeWindowHours(txs) ==
    IF Len(txs) < 2 THEN <<>>
    ELSE <<RoundDiv(10 * Window(SortNum(MapSeq(txs, TxTimestamp))), 1)>>

InTxs(edges) == [i \in 1..Len(edges) |->
    [counterparty |-> edges[i].from, timestamp |-> edges[i].timestamp, amount |-> edges[i].amount]]

OutTxs(edges) == [i \in 1..Len(edges) |->
    [counterparty |-> edges[i].to, timestamp |-> edges[i].timestamp, amount |-> edges[i].amount]]

\* SmurfingDetector._detectFanIn: the loop over reverseAdjList from key number i on
RECURSIVE DetectFanIn(_, _, _)
DetectFanIn(g, i, groups) ==
    IF i > Len(g.reverseAdjList.keys) THEN groups
    ELSE LET node    == g.reverseAdjList.keys[i]
             inEdges == g.reverseAdjList.val[node]
             uniq    == Dedup(MapSeq(inEdges, EdgeFrom))
             txs     == InTxs(inEdges)
             score   == ComputeSmurfScore(g, node, txs, "fan_in")
         IN  IF Len(uniq) < FAN_THRESHOLD \/ ~(score >= SMURF_EMIT_SCORE)
             THEN DetectFanIn(g, i + 1, groups)
             ELSE DetectFanIn(g, i + 1, Append(groups,
                      [type |-> "fan_in", aggregatorNode |-> <<node>>, disperserNode |-> <<>>,
                       members |-> <<node>> \o uniq, score |-> score,
                       temporalWindowHours |-> TimeWindowHours(txs)]))

\* SmurfingDetector._detectFanOut: the loop over adjacencyList from key number i on
RECURSIVE DetectFanOut(_, _, _)
DetectFanOut(g, i, groups) ==
    IF i > Len(g.adjacencyList.keys) THEN groups
    ELSE LET node     == g.adjacencyList.keys[i]
             outEdges == g.adjacencyList.val[node]
             uniq     == Dedup(MapSeq(outEdges, EdgeTo))
             txs      == OutTxs(outEdges)
             score    == ComputeSmurfScore(g, node, txs, "fan_out")
         IN  IF Len(uniq) < FAN_THRESHOLD \/ ~(score >= SMURF_EMIT_SCORE)
             THEN DetectFanOut(g, i + 1, groups)
             ELSE DetectFanOut(g, i + 1, Append(groups,
                      [type |-> "fan_out", aggregatorNode |-> <<>>, disperserNode |-> <<node>>,
                       members |-> <<node>> \o uniq, score |-> score,
                       temporalWindowHours |-> TimeWindowHours(txs)]))

\* a test that finds no node flagged
NeverFlagged(groups, node) == Len(groups) < 0

\* the alreadyFlagged test of _detectCombinedFanInFanOut
AlreadyFlagged(groups, node) ==
    \E i \in 1..Len(groups) :
        groups[i].aggregatorNode = <<node>> \/ groups[i].disperserNode = <<node>>

\* SmurfingDetector._detectCombinedFanInFanOut: the loop over nodeMetadata
RECURSIVE DetectCombined(_, _, _)
DetectCombined(g, i, groups) ==
    IF i > Len(g.nodeMetadata.keys) THEN groups
    ELSE LET node     == g.nodeMetadata.keys[i]
             meta     == g.nodeMetadata.val[node]
             inEdges  == GetOr(g.reverseAdjList, node)
             outEdges == GetOr(g.adjacencyList, node)
             allTxs   == InTxs(inEdges) \o OutTxs(outEdges)
             score    == ComputeSmurfScore(g, node, allTxs, "fan_in_fan_out")
         IN  IF \/ ~(meta.uniqueSenders >= FAN_THRESHOLD /\ meta.uniqueReceivers >= FAN_THRESHOLD)
                \/ AlreadyFlagged(groups, node)
                \/ ~(score >= SMURF_EMIT_SCORE)
             THEN DetectCombined(g, i + 1, groups)
             ELSE DetectCombined(g, i + 1, Append(groups,
                      [type |-> "fan_in_fan_out", aggregatorNode |-> <<node>>,
                       disperserNode |-> <<node>>,
                       members |-> <<node>> \o Dedup(MapSeq(inEdges, EdgeFrom))
                                            \o Dedup(MapSeq(outEdges, EdgeTo)),
                       score |-> score,
                       temporalWindowHours |-> TimeWindowHours(allTxs)]))

\* SmurfingDetector.detect()
SmurfDetect(g) == DetectCombined(g, 1, DetectFanOut(g, 1, DetectFanIn(g, 1, <<>>)))

-----------------------------------------------------------------------------
(* ForensicsEngine.analyze, step 5: raw rings and the account suspicion map *)
(* (server.js, second half).                                                *)

\* the decimal digits of n >= 0, most significant first: String(n)
RECURSIVE Digits(_)
Digits(n) == IF n < 10 THEN <<n>> ELSE Append(Digits(n \div 10), n % 10)

\* s.padStart(len, fill)
RECURSIVE PadStart(_, _, _)
PadStart(s, len, fill) == IF Len(s) >= len THEN s ELSE PadStart(<<fill>> \o s, len, fill)

\* `RING_${String(n).padStart(3, '0')}`: the prefix, then the digits
RingId(n) == <<"RING_">> \o PadStart(Digits(n), 3, 0)

\* ForensicsEngine._addAccountSuspicion
AddAccountSuspicion(map, accountId, score, pattern, ringId) ==
    LET old == IF accountId \in DOMAIN map.val THEN map.val[accountId]
               ELSE [maxScore |-> score, patterns |-> <<>>, ringIds |-> <<>>]
    IN  MapSet(map, accountId,
               [maxScore |-> Max2(old.maxScore, score),
                patterns |-> Dedup(Append(old.patterns, pattern)),
                ringIds  |-> Dedup(Append(old.ringIds, ringId))])

\* _addAccountSuspicion for every account of a list, with one pattern
RECURSIVE AddAccounts(_, _, _, _, _)
AddAccounts(map, accounts, score, pattern, ringId) ==
    IF accounts = <<>> THEN map
    ELSE AddAccountSuspicion(
             AddAccounts(map, SubSeq(accounts, 1, Len(accounts) - 1), score, pattern, ringId),
             Last(accounts), score, pattern, ringId)

\* the ring pushed for a cycle (lines 288-294)
CycleRing(g, cycle, ringId) ==
    [ring_id         |-> ringId,
     member_accounts |-> cycle,
     pattern_type    |-> "cycle",
     risk_score      |-> Round1(ScoreCycle(g, cycle), 1),
     cycle_length    |-> Len(cycle)]

\* the ring pushed for a smurfing group (lines 307-320)
SmurfRing(group, ringId) ==
    [ring_id               |-> ringId,
     member_accounts       |-> Dedup(group.members),
     pattern_type          |-> group.type,
     risk_score            |-> Round1(group.score, 1),
     temporal_window_hours |-> group.temporalWindowHours,
     aggregatorNode        |-> group.aggregatorNode,
     disperserNode         |-> group.disperserNode]

\* the pattern tags of a smurfing group (lines 322-331)
SmurfPatterns(group) ==
    (IF group.type \in {"fan_in", "fan_in_fan_out"} THEN <<"fan_in">> ELSE <<>>)
    \o (IF group.type \in {"fan_out", "fan_in_fan_out"} THEN <<"fan_out">> ELSE <<>>)
    \o (IF group.temporalWindowHours # <<>> /\ group.temporalWindowHours # <<0>>
        THEN <<"high_velocity">> ELSE <<>>)

\* the ring pushed for a shell chain (lines 345-352)
ShellRing(chain, ringId) ==
    [ring_id         |-> ringId,
     member_accounts |-> chain.chain,
     pattern_type    |-> "shell_network",
     risk_score      |-> Round1(chain.score, 1),
     chain_length    |-> Len(chain.chain),
     amount_pattern  |-> chain.amountPattern]

\* a ring counter that is kept by the engine from one analyze() call to the next
RingNumberKept == IF run = "first" THEN 1 ELSE 2

\* the first value of ringCounter
FirstRingNumber == 1

\* the loop over the cycles; st = [rings, map, counter]
RECURSIVE ProcessCycles(_, _, _)
ProcessCycles(g, cs, st) ==
    IF cs = <<>> THEN st
    ELSE LET prev   == ProcessCycles(g, SubSeq(cs, 1, Len(cs) - 1), st)
             cycle  == Last(cs)
             ringId == RingId(prev.counter)
         IN  [rings   |-> Append(prev.rings, CycleRing(g, cycle, ringId)),
              map     |-> AddAccounts(prev.map, cycle, ScoreCycle(g, cycle),
                                      "cycle_length_" \o ToString(Len(cycle)), ringId),
              counter |-> prev.counter + 1]

\* the pattern loop for one member (lines 333-337)
RECURSIVE AddPatterns(_, _, _, _, _)
AddPatterns(map, member, patterns, score, ringId) ==
    IF patterns = <<>> THEN map
    ELSE AddAccountSuspicion(
             AddPatterns(map, member, SubSeq(patterns, 1, Len(patterns) - 1), score, ringId),
             member, score, Last(patterns), ringId)

\* the member loop with the pattern loop inside (lines 333-337): the first half of
\* the members, then the second half on the map the first half leaves
RECURSIVE AddSmurfMembers(_, _, _, _, _)
AddSmurfMembers(map, members, patterns, score, ringId) ==
    IF members = <<>> THEN map
    ELSE IF Len(members) = 1 THEN AddPatterns(map, members[1], patterns, score, ringId)
    ELSE LET half == Len(members) \div 2
         IN  The({AddSmurfMembers(m, SubSeq(members, half + 1, Len(members)),
                                  patterns, score, ringId) :
                    m \in {AddSmurfMembers(map, SubSeq(members, 1, half),
                                           patterns, score, ringId)}})

\* the loop over the smurfing groups
RECURSIVE ProcessGroups(_, _)
ProcessGroups(gs, st) ==
    IF gs = <<>> THEN st
    ELSE LET prev   == ProcessGroups(SubSeq(gs, 1, Len(gs) - 1), st)
             group  == Last(gs)
             ringId == RingId(prev.counter)
             ring   == SmurfRing(group, ringId)
         IN  [rings   |-> Append(prev.rings, ring),
              map     |-> AddSmurfMembers(prev.map, ring.member_accounts, SmurfPatterns(group),
                                          group.score, ringId),
              counter |-> prev.counter + 1]

\* the member loop of a shell chain (lines 354-358)
RECURSIVE AddChainMembers(_, _, _, _)
AddChainMembers(map, chain, accounts, ringId) ==
    IF accounts = <<>> THEN map
    ELSE LET account == Last(accounts)
             pattern == IF account \in Range(chain.shellAccounts)
                        THEN "shell_intermediary" ELSE "shell_network_endpoint"
         IN  AddAccountSuspicion(
                 AddChainMembers(map, chain, SubSeq(accounts, 1, Len(accounts) - 1), ringId),
                 account, chain.score, pattern, ringId)

\* the loop over the shell chains
RECURSIVE ProcessChains(_, _)
ProcessChains(chs, st) ==
    IF chs = <<>> THEN st
    ELSE LET prev   == ProcessChains(SubSeq(chs, 1, Len(chs) - 1), st)
             chain  == Last(chs)
             ringId == RingId(prev.counter)
         IN  [rings   |-> Append(prev.rings, ShellRing(chain, ringId)),
              map     |-> AddChainMembers(prev.map, chain, chain.chain, ringId),
              counter |-> prev.counter + 1]

\* step 5 as a whole
BuildRings(g, cs, gs, chs) ==
    ProcessChains(chs, ProcessGroups(gs, ProcessCycles(g, cs,
        [rings |-> <<>>, map |-> EmptyMap, counter |-> FirstRingNumber])))

\* the list without the entry of the account that was recorded last
SuspiciousAccountsButLast(map) ==
    [i \in 1..(IF Len(map.keys) = 0 THEN 0 ELSE Len(map.keys) - 1) |->
        LET data == map.val[map.keys[i]]
        IN  [account_id        |-> map.keys[i],
             suspicion_score   |-> Round1(data.maxScore, 1),
             detected_patterns |-> data.patterns,
             ring_id           |-> data.ringIds[1]]]

\* the suspicious accounts list built from the map (lines 366-374)
SuspiciousAccounts(map) ==
    [i \in 1..Len(map.keys) |->
        LET data == map.val[map.keys[i]]
        IN  [account_id        |-> map.keys[i],
             suspicion_score   |-> Round1(data.maxScore, 1),
             detected_patterns |-> data.patterns,
             ring_id           |-> data.ringIds[1]]]

-----------------------------------------------------------------------------
(* FalsePositiveFilter.                                                    *)

LEGITIMACY_MIN == 40

\* total / Math.max(window, 0.1) < v, for a window of whole hours
VelocityBelow(total, w, v) == IF w = 0 THEN 10 * total < v ELSE total < v * w

\* the legitimacy score of a merchant candidate (lines 93-142)
MerchantScore(inEdges) ==
    LET inAmounts == MapSeq(inEdges, EdgeAmount)
        ts        == SortNum(MapSeq(inEdges, EdgeTimestamp))
    IN    (IF Len(inAmounts) > 5 /\ CvGreater(inAmounts, 4, 10) THEN 20 ELSE 0)
        + (IF Len(ts) >= 2
           THEN IF Window(ts) > 168 THEN 25 ELSE IF Window(ts) > 72 THEN 15 ELSE 0
           ELSE 0)
        + (IF /\ Len(ts) >= 5
              /\ 10 * CountIf(ts, LAMBDA x : HourOf(x) >= 8 /\ HourOf(x) <= 20) > 6 * Len(ts)
           THEN 20 ELSE 0)
        + (IF Len(ts) >= 5 /\ Window(ts) > 0 /\ CvLess(Deltas(ts), 8, 10) THEN 15 ELSE 0)
        + (IF Len(ts) >= 2 /\ VelocityBelow(SumSeq(inAmounts), Window(ts), 500) THEN 10 ELSE 0)

\* FalsePositiveFilter._detectMerchants: the nodes it marks
Merchants(g) ==
    {n \in Range(g.nodeMetadata.keys) :
        LET meta == g.nodeMetadata.val[n]
            senders == Senders(g, n)
            receivers == Receivers(g, n)
        IN  /\ meta.uniqueSenders >= 10
            /\ meta.uniqueReceivers <= 5
            /\ 5 * Overlap(senders, receivers) < Max2(Cardinality(senders), 1)
            /\ MerchantScore(GetOr(g.reverseAdjList, n)) >= LEGITIMACY_MIN}

\* FalsePositiveFilter._groupAmounts with tolerance 0.1: the sizes of the groups of
\* the sorted amounts; cur is the group being filled
RECURSIVE GroupSizes(_, _)
GroupSizes(sorted, cur) ==
    IF sorted = <<>> THEN <<Len(cur)>>
    ELSE IF 10 * Abs(Len(cur) * sorted[1] - SumSeq(cur)) <= SumSeq(cur)
         THEN GroupSizes(Tail(sorted), Append(cur, sorted[1]))
         ELSE <<Len(cur)>> \o GroupSizes(Tail(sorted), <<sorted[1]>>)

LargestGroupSize(amounts) ==
    LET sorted == SortNum(amounts)
        sizes  == GroupSizes(Tail(sorted), <<sorted[1]>>)
    IN  CHOOSE c \in Range(sizes) : \A d \in Range(sizes) : c >= d

\* the common intervals of _checkTemporalRegularity, in hours
RegularityIntervals == <<1, 24, 7 * 24, 14 * 24, 30 * 24>>

\* FalsePositiveFilter._checkTemporalRegularity
CheckTemporalRegularity(ts) ==
    /\ ~(Len(ts) < 5)
    /\ RegularSchedule(Deltas(ts), RegularityIntervals, 75, 125, 4, 10)

\* the legitimacy score of a payroll candidate (lines 175-217)
PayrollScore(outEdges) ==
    LET amounts   == MapSeq(outEdges, EdgeAmount)
        receivers == MapSeq(outEdges, EdgeTo)
        ts        == SortNum(MapSeq(outEdges, EdgeTimestamp))
        repeat    == Cardinality({r \in Range(receivers) : CountIf(receivers, LAMBDA x : x = r) >= 2})
    IN    (IF 10 * LargestGroupSize(amounts) > 3 * Len(amounts) THEN 20 ELSE 0)
        + (IF 2 * CountIf(amounts, HasCents) > Len(amounts) THEN 15 ELSE 0)
        + (IF 10 * repeat > 4 * Cardinality(Range(receivers)) THEN 15 ELSE 0)
        + (IF CheckTemporalRegularity(ts) THEN 20 ELSE 0)
        + (IF /\ Len(ts) >= 5
              /\ 10 * CountIf(ts, LAMBDA x : HourOf(x) >= 8 /\ HourOf(x) <= 18) > 7 * Len(ts)
           THEN 10 ELSE 0)
        + (IF Len(ts) >= 2
           THEN IF Window(ts) > 168 THEN 15 ELSE IF Window(ts) > 72 THEN 10 ELSE 0
           ELSE 0)

\* FalsePositiveFilter._detectPayroll: the nodes it marks
Payrolls(g) ==
    {n \in Range(g.nodeMetadata.keys) :
        LET meta == g.nodeMetadata.val[n]
            outEdges == GetOr(g.adjacencyList, n)
        IN  /\ meta.uniqueReceivers >= 10
            /\ meta.uniqueSenders <= 5
            /\ ~(Len(outEdges) < 10)
            /\ ~(Overlap(Senders(g, n), Receivers(g, n)) > 0)
            /\ PayrollScore(outEdges) >= LEGITIMACY_MIN}

\* FalsePositiveFilter._detectExchangePlatforms: the nodes it marks
Exchanges(g) ==
    {n \in Range(g.nodeMetadata.keys) :
        LET meta == g.nodeMetadata.val[n]
            senders == Senders(g, n)
            receivers == Receivers(g, n)
            all == SortNum(MapSeq(GetOr(g.reverseAdjList, n), EdgeTimestamp)
                           \o MapSeq(GetOr(g.adjacencyList, n), EdgeTimestamp))
        IN  /\ meta.uniqueSenders >= 20
            /\ meta.uniqueReceivers >= 20
            /\ 100 * Overlap(senders, receivers)
                 < 15 * Max2(Max2(Cardinality(senders), Cardinality(receivers)), 1)
            /\ Len(all) >= 2
            /\ Window(all) > 48}

\* the test applied to a counterparty cp of a hub (lines 283-286 and 300-303):
\* mine are cp's edges on the side facing the hub, withHub those of them with the hub
IsLightCounterparty(g, cp, withHub, mine) ==
    /\ cp \in DOMAIN g.nodeMetadata.val
    /\ (mine <= 3 \/ 2 * withHub > mine)
    /\ g.nodeMetadata.val[cp].txCount <= 5

\* FalsePositiveFilter._markCounterpartiesOfLegitimateHubs: the accounts it adds
Counterparties(g, hubs) ==
    {cp \in Range(g.nodeMetadata.keys) :
        \E hub \in hubs :
            \/ /\ cp \in Senders(g, hub)
               /\ LET out == GetOr(g.adjacencyList, cp)
                  IN  IsLightCounterparty(g, cp, CountIf(out, LAMBDA e : e.to = hub), Len(out))
            \/ /\ cp \in Receivers(g, hub)
               /\ LET in == GetOr(g.reverseAdjList, cp)
                  IN  IsLightCounterparty(g, cp, CountIf(in, LAMBDA e : e.from = hub), Len(in))}

\* a sweep that also makes hubs of the counterparties
DetectLegitimateSweepHubs(g) ==
    LET hubs == Merchants(g) \cup Payrolls(g) \cup Exchanges(g)
    IN  [legitimateAccounts |-> hubs \cup Counterparties(g, hubs),
         legitimateHubs     |-> hubs \cup Counterparties(g, hubs)]

\* FalsePositiveFilter.detectLegitimate(): the two sets
DetectLegitimate(g) ==
    LET hubs == Merchants(g) \cup Payrolls(g) \cup Exchanges(g)
    IN  [legitimateAccounts |-> hubs \cup Counterparties(g, hubs),
         legitimateHubs     |-> hubs]

\* ring.aggregatorNode || ring.disperserNode || null
CentralNode(ring) ==
    IF "aggregatorNode" \in DOMAIN ring /\ ring.aggregatorNode # <<>> THEN ring.aggregatorNode
    ELSE IF "disperserNode" \in DOMAIN ring /\ ring.disperserNode # <<>> THEN ring.disperserNode
    ELSE <<>>

\* is the ring dropped because of a legitimate hub (lines 45-54)
RingHasLegitimateHub(lg, ring) ==
    \/ CentralNode(ring) # <<>> /\ CentralNode(ring)[1] \in lg.legitimateHubs
    \/ \E i \in 1..Len(ring.member_accounts) : ring.member_accounts[i] \in lg.legitimateHubs

\* a filter that spares only the hubs, not their counterparties
KeepAccountHubsOnly(lg, acc) == acc.account_id \notin lg.legitimateHubs

\* the account filter of filterResults (lines 38-40)
KeepAccount(lg, acc) == acc.account_id \notin lg.legitimateAccounts

\* a member filter that removes nobody
AllMembers(lg, members) == members

\* the member filter of filterResults (lines 57-59)
FilterMembers(lg, members) == FilterSeq(members, LAMBDA id : id \notin lg.legitimateAccounts)

\* the loop over fraudRings of filterResults
RECURSIVE FilterRings(_, _)
FilterRings(lg, rings) ==
    IF rings = <<>> THEN <<>>
    ELSE LET init == FilterRings(lg, SubSeq(rings, 1, Len(rings) - 1))
             ring == Last(rings)
             filteredMembers == FilterMembers(lg, ring.member_accounts)
         IN  IF RingHasLegitimateHub(lg, ring) THEN init
             ELSE IF Len(filteredMembers) >= 3
                  THEN Append(init, [ring EXCEPT !.member_accounts = filteredMembers])
                  ELSE init

\* FalsePositiveFilter.filterResults
FilterResults(lg, suspiciousAccounts, rings) ==
    [filteredAccounts |-> FilterSeq(suspiciousAccounts, LAMBDA acc : KeepAccount(lg, acc)),
     filteredRings    |-> FilterRings(lg, rings)]

-----------------------------------------------------------------------------
(* ForensicsEngine._mergeOverlappingRings.                                 *)

\* find(x): the root of x (the path halving it does leaves every root as it is)
RECURSIVE Find(_, _)
Find(parent, x) == IF parent[x] = x THEN x ELSE Find(parent, parent[x])

\* union(a, b)
Union(parent, a, b) ==
    LET ra == Find(parent, a)
        rb == Find(parent, b)
    IN  IF ra # rb THEN [parent EXCEPT ![ra] = rb] ELSE parent

\* the test of lines 536-543 on two rings
SignificantOverlap(ringI, ringJ) ==
    /\ ringI.pattern_type = ringJ.pattern_type
    /\ LET setI == Range(ringI.member_accounts)
           setJ == Range(ringJ.member_accounts)
       IN  2 * Cardinality(setI \cap setJ) > Min2(Cardinality(setI), Cardinality(setJ))

\* the double loop of lines 533-548, from the pair (i, j) on
RECURSIVE UnionPairs(_, _, _, _)
UnionPairs(rings, parent, i, j) ==
    IF i > Len(rings) THEN parent
    ELSE IF j > Len(rings) THEN UnionPairs(rings, parent, i + 1, i + 2)
    ELSE UnionPairs(rings,
                    IF SignificantOverlap(rings[i], rings[j]) THEN Union(parent, i, j) ELSE parent,
                    i, j + 1)

\* the first elements of s without repetition (the key order of the groups Map)
RootsInOrder(parent, n) == Dedup([i \in 1..n |-> Find(parent, i)])

\* the ring pushed for a group (lines 561-577)
MergeGroup(group) ==
    IF Len(group) = 1 THEN group[1]
    ELSE LET RECURSIVE members(_)
             members(k) == IF k = 0 THEN <<>> ELSE members(k - 1) \o group[k].member_accounts
             RECURSIVE maxScore(_)
             maxScore(k) == IF k = 0 THEN 0 ELSE Max2(maxScore(k - 1), group[k].risk_score)
         IN  [ring_id         |-> group[1].ring_id,
              member_accounts |-> Dedup(members(Len(group))),
              pattern_type    |-> group[1].pattern_type,
              risk_score      |-> maxScore(Len(group))]

\* ForensicsEngine._mergeOverlappingRings
MergeOverlappingRings(rings) ==
    IF Len(rings) <= 1 THEN rings
    ELSE LET parent == UnionPairs(rings, [i \in 1..Len(rings) |-> i], 1, 2)
             roots  == RootsInOrder(parent, Len(rings))
             idx    == [i \in 1..Len(rings) |-> i]
             group(r) == LET is == FilterSeq(idx, LAMBDA i : Find(parent, i) = r)
                         IN  [k \in 1..Len(is) |-> rings[is[k]]]
         IN  [k \in 1..Len(roots) |-> MergeGroup(group(roots[k]))]

\* the rings with the ids they were created with
KeepRingIds(rings) == rings

\* the reassignment of ring ids after the merge (lines 386-389)
ReassignRingIds(rings) == [i \in 1..Len(rings) |-> [rings[i] EXCEPT !.ring_id = RingId(i)]]

\* ringMapping (lines 400-405): the id of the last ring that lists the account
RingMapping(rings, account) ==
    LET hits == {i \in 1..Len(rings) : account \in Range(rings[i].member_accounts)}
    IN  IF hits = {} THEN <<>>
        ELSE <<rings[CHOOSE i \in hits : \A j \in hits : i >= j].ring_id>>

\* accountsWithRingIds (lines 407-410)
AccountsWithRingIds(accounts, rings) ==
    [i \in 1..Len(accounts) |->
        LET m == RingMapping(rings, accounts[i].account_id)
        IN  IF m # <<>> THEN [accounts[i] EXCEPT !.ring_id = m[1]] ELSE accounts[i]]

-----------------------------------------------------------------------------
(* ScoringEngine.                                                          *)

W1 == 35

W2 == 35

WINDOW_72H == 72

FPP_TX_COUNT == 50

\* ScoringEngine._computeVelocity72h: [num, den] with V = num / den
ComputeVelocity72h(allTimestamps) ==
    IF Len(allTimestamps) <= 1 THEN [num |-> 1, den |-> 1]
    ELSE LET sorted == SortNum(allTimestamps)
             inWindow(i) == Cardinality({j \in i..Len(sorted) : sorted[j] <= sorted[i] + WINDOW_72H})
             counts == {inWindow(i) : i \in 1..Len(sorted)} \cup {1}
         IN  [num |-> CHOOSE c \in counts : \A d \in counts : c >= d, den |-> Len(sorted)]

\* every tag adds its amount, repeated tags again
ModifierPerTag(detectedPatterns, meta) ==
    LET amount(p) ==
            IF p \in {"cycle_length_3", "cycle_length_4", "cycle_length_5"} THEN 20
            ELSE IF p \in {"fan_in", "fan_out"} THEN 25
            ELSE IF p \in {"shell_intermediary", "shell_network_endpoint"}
                 THEN IF meta.txCount <= 3 THEN 30 ELSE 15
            ELSE 0
        RECURSIVE sum(_)
        sum(k) == IF k = 0 THEN 0 ELSE sum(k - 1) + amount(detectedPatterns[k])
    IN  sum(Len(detectedPatterns))

\* ScoringEngine._computePatternModifier
ComputePatternModifier(detectedPatterns, meta) ==
    LET patterns == Range(detectedPatterns)
    IN    (IF \E p \in patterns : p \in {"cycle_length_3", "cycle_length_4", "cycle_length_5"}
           THEN 20 ELSE 0)
        + (IF "fan_in" \in patterns THEN 25 ELSE 0)
        + (IF "fan_out" \in patterns THEN 25 ELSE 0)
        + (IF \E p \in patterns : p \in {"shell_intermediary", "shell_network_endpoint"}
           THEN IF meta.txCount <= 3 THEN 30 ELSE 15
           ELSE 0)

\* PTR = min(in, out) / max(in, out), 0 when both are 0; in lowest terms
PassThroughRate(meta) ==
    LET lo == Min2(meta.totalReceived, meta.totalSent)
        hi == Max2(meta.totalReceived, meta.totalSent)
        g  == Gcd(hi, lo)
    IN  IF hi > 0 THEN [num |-> lo \div g, den |-> hi \div g] ELSE [num |-> 0, den |-> 1]

\* Math.min(100, Math.max(0, Math.round(raw * 10) / 10)), raw = num / den points
\* the rounding without the clamp to [0, 100]
RoundedScore(num, den) == Round1(num, den)

ClampedScore(num, den) == Min2(100000, Max2(0, Round1(num, den)))

\* the labels of lines 85-89
SuspicionLabel(score) ==
    IF score >= 75000 THEN "High Risk"
    ELSE IF score >= 50000 THEN "Suspicious"
    ELSE IF score >= 20000 THEN "Monitor"
    ELSE "Stable / Merchant"

\* ScoringEngine.computeSuspicionScore; the detail fields that repeat ptr, velocity,
\* pm and fpp under other names are given once
ComputeSuspicionScore(g, accountId, detectedPatterns) ==
    IF accountId \notin DOMAIN g.nodeMetadata.val
    THEN [suspicion_score |-> 0, suspicion_label |-> "Stable / Merchant",
          acceleration_score |-> 0, stability_score |-> 0,
          ring_participation_bonus |-> 0, flow_ratio |-> 0]
    ELSE LET meta == g.nodeMetadata.val[accountId]
             ptr  == PassThroughRate(meta)
             v    == ComputeVelocity72h(meta.allTimestamps)
             pm   == ComputePatternModifier(detectedPatterns, meta)
             fpp  == IF meta.txCount > FPP_TX_COUNT /\ 10 * ptr.num < 3 * ptr.den THEN 50 ELSE 0
             score == ClampedScore(W1 * ptr.num * v.den + W2 * v.num * ptr.den
                                     + (pm - fpp) * ptr.den * v.den,
                                   ptr.den * v.den)
         IN  [suspicion_score |-> score,
              suspicion_label |-> SuspicionLabel(score),
              acceleration_score |-> RoundDiv(1000 * ptr.num, ptr.den),
              stability_score |-> IF fpp > 0 THEN 1 ELSE 0,
              ring_participation_bonus |-> RoundDiv(10 * pm, 1),
              flow_ratio |-> RoundDiv(1000 * v.num, v.den)]

AccountId(acc) == acc.account_id

SuspicionScore(acc) == acc.suspicion_score

\* one scored account (lines 420-436); the fields of acc are kept
ScoredAccount(g, acc) ==
    LET s == ComputeSuspicionScore(g, acc.account_id, acc.detected_patterns)
    IN  [account_id        |-> acc.account_id,
         detected_patterns |-> acc.detected_patterns,
         ring_id           |-> acc.ring_id,
         suspicion_score   |-> s.suspicion_score,
         suspicion_label   |-> s.suspicion_label,
         scoring_details   |-> [acceleration_score |-> s.acceleration_score,
                                stability_score |-> s.stability_score,
                                ring_participation_bonus |-> s.ring_participation_bonus,
                                flow_ratio |-> s.flow_ratio]]

\* the accounts whose id was not seen earlier in the list (processedIds)
FirstOfEachId(accounts) ==
    Keep(accounts, [i \in 1..Len(accounts) |->
                       \A j \in 1..(i - 1) : accounts[j].account_id # accounts[i].account_id])

\* the scored accounts in the order of the input list
ScoreInInputOrder(g, accounts) ==
    LET first == FirstOfEachId(accounts)
    IN  [i \in 1..Len(first) |-> ScoredAccount(g, first[i])]

\* ScoringEngine.scoreAllAccounts
ScoreAllAccounts(g, accounts) ==
    LET first == FirstOfEachId(accounts)
    IN  SortDesc([i \in 1..Len(first) |-> ScoredAccount(g, first[i])], SuspicionScore)

\* ScoringEngine._normalizePatternType
NormalizePatternType(patternType) ==
    IF patternType \in {"shell_network", "layered_chain"} THEN "layered_chain"
    ELSE IF patternType \in {"fan_in", "fan_out", "fan_in_fan_out", "smurf_cluster"}
         THEN "smurf_cluster"
    ELSE IF patternType \in {"cycle", "cycle_ring"} THEN "cycle_ring"
    ELSE patternType

\* ScoringEngine.findRingTransactions
FindRingTransactions(txs, memberAccounts) ==
    FilterSeq(txs, LAMBDA tx : /\ tx.sender_id \in Range(memberAccounts)
                               /\ tx.receiver_id \in Range(memberAccounts))

\* T_density of computeRiskScore (lines 227-238)
TDensity(ringTxns) ==
    LET ts == SortNum(MapSeq(ringTxns, TxTimestamp))
    IN  IF Len(ts) >= 2 THEN (IF Window(ts) <= 72 THEN 15 ELSE 0) ELSE 15

\* ring.chain_length ? ring.chain_length - 1 : ring.member_accounts.length - 1
ChainHopLength(ring) ==
    IF "chain_length" \in DOMAIN ring /\ ring.chain_length # 0
    THEN ring.chain_length - 1
    ELSE Len(ring.member_accounts) - 1

\* C_severity of computeRiskScore (lines 241-255)
CSeverity(ring) ==
    LET patternType == NormalizePatternType(ring.pattern_type)
    IN  IF patternType = "cycle_ring" THEN 10
        ELSE IF patternType = "layered_chain"
             THEN IF ChainHopLength(ring) > 3 THEN 15 ELSE 10
        ELSE IF patternType = "smurf_cluster"
             THEN IF Len(ring.member_accounts) >= 25 THEN 20 ELSE 10
        ELSE 0

\* the labels of lines 263-266
RiskLabel(score) ==
    IF score >= 80000 THEN "Critical"
    ELSE IF score >= 60000 THEN "High"
    ELSE IF score >= 40000 THEN "Medium"
    ELSE "Low"

\* ScoringEngine.computeRiskScore; memberScores are in thousandths of a point
ComputeRiskScore(ring, memberScores, ringTxns) ==
    LET n     == Len(memberScores)
        total == SumSeq(memberScores)
        bonus == TDensity(ringTxns) + CSeverity(ring)
        score == IF n > 0 THEN ClampedScore(total + 1000 * bonus * n, 1000 * n)
                 ELSE ClampedScore(bonus, 1)
    IN  [risk_score |-> score,
         risk_label |-> RiskLabel(score),
         risk_details |->
            [base_score |-> IF n > 0 THEN Round1(total, 1000 * n) ELSE 0,
             pattern_type_normalized |-> NormalizePatternType(ring.pattern_type),
             ring_size |-> Len(ring.member_accounts),
             time_compression |-> TDensity(ringTxns),
             flow_through |-> CSeverity(ring)]]

\* suspicionLookup.get(m) || 0: the score of the last scored account with this id
SuspicionLookup(scored, m) ==
    LET hits == {i \in 1..Len(scored) : scored[i].account_id = m}
    IN  IF hits = {} THEN 0
        ELSE scored[CHOOSE i \in hits : \A j \in hits : i >= j].suspicion_score

\* ScoringEngine.scoreAllRings
ScoreAllRings(txs, rings, scored) ==
    [i \in 1..Len(rings) |->
        LET ring == rings[i]
            memberScores == [k \in 1..Len(ring.member_accounts) |->
                                SuspicionLookup(scored, ring.member_accounts[k])]
            s == ComputeRiskScore(ring, memberScores,
                                  FindRingTransactions(txs, ring.member_accounts))
        IN  [f \in (DOMAIN ring) \cup {"risk_score", "risk_label", "risk_details"} |->
                IF f = "risk_score" THEN s.risk_score
                ELSE IF f = "risk_label" THEN s.risk_label
                ELSE IF f = "risk_details" THEN s.risk_details
                ELSE ring[f]]]

-----------------------------------------------------------------------------
(* The result record of analyze (lines 457-491). graph_data, a projection  *)
(* of the graph for display, is left out.                                  *)

\* a summary that reports the ring counter, which starts at 1, as the ring count
SummaryWithRingCounter(g, finalAccounts, finalRings, elapsedMs) ==
    [total_accounts_analyzed     |-> Len(g.nodes),
     suspicious_accounts_flagged |-> Len(finalAccounts),
     fraud_rings_detected        |-> Len(finalRings) + 1,
     processing_time_seconds     |-> Round1(elapsedMs, 1000)]

\* summary; elapsedMs is Date.now() - startTime
Summary(g, finalAccounts, finalRings, elapsedMs) ==
    [total_accounts_analyzed     |-> Len(g.nodes),
     suspicious_accounts_flagged |-> Len(finalAccounts),
     fraud_rings_detected        |-> Len(finalRings),
     processing_time_seconds     |-> Round1(elapsedMs, 1000)]

AnalyzeResults(g, finalAccounts, finalRings, elapsedMs) ==
    [suspicious_accounts |-> finalAccounts,
     fraud_rings         |-> finalRings,
     summary             |-> Summary(g, finalAccounts, finalRings, elapsedMs)]

-----------------------------------------------------------------------------
(* Input batches.                                                          *)

\* how many transactions of a scenario a batch may leave out
MaxDropped == 2

\* the longest analyze() run time the clock may report, in milliseconds
MaxElapsedMs == 70

Tx(id, s, r, amount, ts) ==
    [transaction_id |-> id, sender_id |-> s, receiver_id |-> r, amount |-> amount, timestamp |-> ts]

\* two five-cycles through 1-2-3-4, a three-cycle 5-6-7 on a doubled edge
CycleCluster ==
    << Tx(1, 5, 1, 9000, 100), Tx(2, 1, 2, 9000, 101), Tx(3, 2, 3, 8900, 102),
       Tx(4, 3, 4, 8800, 103), Tx(5, 4, 5, 8700, 104), Tx(6, 4, 6, 8700, 104),
       Tx(7, 6, 1, 9500, 99),  Tx(8, 5, 6, 300, 110),  Tx(9, 5, 6, 300, 110),
       Tx(10, 6, 7, 300, 111), Tx(11, 7, 5, 250, 112) >>

\* a pass-through chain 1-2-3-4-5 with a branch that drops too far and a doubled
\* branch that grows
ShellChain ==
    << Tx(1, 1, 2, 200000, 10), Tx(2, 2, 3, 200000, 11), Tx(3, 3, 4, 200000, 12),
       Tx(4, 4, 5, 200000, 13), Tx(5, 3, 6, 50000, 12),  Tx(6, 4, 7, 205000, 14),
       Tx(7, 4, 7, 205000, 14) >>

\* a pass-through chain of nine accounts, each hop 100 less than the one before
LongChain ==
    << Tx(1, 1, 2, 5000, 10), Tx(2, 2, 3, 4900, 11), Tx(3, 3, 4, 4800, 12),
       Tx(4, 4, 5, 4700, 13), Tx(5, 5, 6, 4600, 14), Tx(6, 6, 7, 4500, 15),
       Tx(7, 7, 8, 4400, 16), Tx(8, 8, 9, 4300, 17) >>

\* ten customers pay merchant 8 once a day; cycles through the merchant and through
\* its counterparties 1 and 2
MerchantHub ==
    << Tx(1, 11, 8, 20, 10),   Tx(2, 12, 8, 500, 34),  Tx(3, 13, 8, 40, 58),
       Tx(4, 14, 8, 300, 82),  Tx(5, 15, 8, 60, 106),  Tx(6, 16, 8, 200, 130),
       Tx(7, 17, 8, 80, 154),  Tx(8, 18, 8, 100, 178), Tx(9, 19, 8, 400, 202),
       Tx(10, 20, 8, 50, 226),
       Tx(11, 8, 1, 100, 300), Tx(12, 1, 2, 100, 301), Tx(13, 2, 8, 100, 302),
       Tx(14, 1, 3, 90, 303),  Tx(15, 3, 4, 90, 304),  Tx(16, 4, 1, 90, 305),
       Tx(17, 4, 9, 80, 306),  Tx(18, 9, 1, 80, 307),
       Tx(19, 2, 5, 70, 310),  Tx(20, 5, 6, 70, 311),  Tx(21, 6, 2, 70, 312) >>

\* eleven senders structure 9,500 each into account 9 within three night hours
FanInBurst ==
    << Tx(1, 11, 9, 9500, 241), Tx(2, 12, 9, 9500, 241), Tx(3, 13, 9, 9500, 241),
       Tx(4, 14, 9, 9500, 242), Tx(5, 15, 9, 9500, 242), Tx(6, 16, 9, 9500, 242),
       Tx(7, 17, 9, 9500, 243), Tx(8, 18, 9, 9500, 243), Tx(9, 19, 9, 9500, 244),
       Tx(10, 20, 9, 9500, 244), Tx(11, 21, 9, 9500, 244) >>

Scenarios == {CycleCluster, ShellChain, LongChain, MerchantHub, FanInBurst}

\* the subsets of S with at most k elements
RECURSIVE SubsetsUpTo(_, _)
SubsetsUpTo(S, k) ==
    IF k = 0 THEN {{}}
    ELSE LET prev == SubsetsUpTo(S, k - 1)
         IN  prev \cup {p \cup {x} : p \in prev, x \in S}

\* the scenario without the transactions at the positions of D
Without(s, D) == Keep(s, [i \in 1..Len(s) |-> i \notin D])

\* m transfers on each side of the triangle 1-2-3, one on each side of 4-5-6
Dense(m) ==
    [i \in 1..(3 * m) |-> Tx(i, ((i - 1) % 3) + 1, (i % 3) + 1, 5000 + i, 10 + i)]
        \o << Tx(3 * m + 1, 4, 5, 700, 200), Tx(3 * m + 2, 5, 6, 700, 201),
              Tx(3 * m + 3, 6, 4, 700, 202) >>

\* 343 and 512 ways round the triangle 1-2-3
DenseBatches == {Dense(7), Dense(8)}

\* the triangle 1-2-3 with m transfers from 2 to 3 and one on each other side, and
\* the triangle 4-5-6
BusySide(m) ==
    << Tx(1, 1, 2, 4000, 10) >>
        \o [i \in 1..m |-> Tx(1 + i, 2, 3, 4000 + i, 10 + i)]
        \o << Tx(m + 2, 3, 1, 3900, 50 + m), Tx(m + 3, 4, 5, 700, 200),
              Tx(m + 4, 5, 6, 700, 201), Tx(m + 5, 6, 4, 700, 202) >>

\* the triangle 1-2-3 with m transfers from 1 to 2 and one on each other side, and
\* the triangle 4-5-6
BusyStart(m) ==
    [i \in 1..m |-> Tx(i, 1, 2, 4000 + i, 10 + i)]
        \o << Tx(m + 1, 2, 3, 3900, 50 + m), Tx(m + 2, 3, 1, 3900, 51 + m),
              Tx(m + 3, 4, 5, 700, 200), Tx(m + 4, 5, 6, 700, 201),
              Tx(m + 5, 6, 4, 700, 202) >>

\* account 2, a next hop, and account 1, a start node, with as many outgoing
\* transfers as the search still enters, and with one more
BusyBatches ==
    {BusySide(MAX_OUT_DEGREE), BusySide(MAX_OUT_DEGREE + 1), BusyStart(MAX_OUT_DEGREE + 1)}

\* the hours of ten transfers on three evenings, four of them from 23h to midnight
EveningHours == <<21, 22, 23, 24, 45, 46, 47, 48, 69, 70>>

\* account 1 receives from the accounts 2..(1 + n) and sends to the accounts 2..11:
\* 15000 + inStep * k from its k-th sender, 15000 + outStep * k to its k-th receiver
TwoWayHub(n, inStep, outStep) ==
    [k \in 1..n |-> Tx(k, 1 + k, 1, 15000 + inStep * k, EveningHours[k])]
        \o [k \in 1..10 |-> Tx(n + k, 1, 1 + k, 15000 + outStep * k, EveningHours[k])]

\* the hub below and at the threshold of senders, with equal and with unequal
\* amounts on either side
HubBatches ==
    {TwoWayHub(n, inStep, outStep) :
        n \in {FAN_THRESHOLD - 1, FAN_THRESHOLD}, inStep \in {0, 1000}, outStep \in {0, 1000}}

\* one transfer per hop along the accounts of ids, in the order of rows
Chain(ids, amounts, times, rows) ==
    [k \in 1..Len(rows) |->
        Tx(k, ids[rows[k]], ids[rows[k] + 1], amounts[rows[k]], times[rows[k]])]

\* four hop amounts that start at a and fall by 0 or AMOUNT_COHERENCE_MAX_DROP per
\* hop and stay positive
FallingAmounts ==
    {<<a, a - d1, a - d1 - d2, a - d1 - d2 - d3>> :
        a \in {1, 30001, 200000}, d1 \in {0, AMOUNT_COHERENCE_MAX_DROP},
        d2 \in {0, AMOUNT_COHERENCE_MAX_DROP}, d3 \in {0, AMOUNT_COHERENCE_MAX_DROP}}
      \cap Seq(1..200000)

\* four increasing hours that span at most 24
RisingTimes == {<<10, 11, 12, 13>>, <<0, 8, 16, 24>>, <<23, 24, 25, 47>>}

\* the batches that are nothing but one chain over five accounts
PureChains ==
    {Chain(ids, amounts, times, rows) :
        ids \in {<<1, 2, 3, 4, 5>>, <<5, 4, 3, 2, 1>>, <<3, 1, 4, 2, 5>>, <<2, 5, 1, 3, 4>>},
        amounts \in FallingAmounts, times \in RisingTimes,
        rows \in {<<1, 2, 3, 4>>, <<4, 3, 2, 1>>}}

\* the scenarios with some transactions left out, the dense batches, the pure
\* chains, and the batch of no transaction
Batches ==
    {<<>>} \cup DenseBatches \cup BusyBatches \cup HubBatches \cup PureChains
        \cup {Without(s, D) : s \in Scenarios, D \in SubsetsUpTo(1..21, MaxDropped)}

\* the array with the elements at i and j exchanged
Swap(s, i, j) == [k \in 1..Len(s) |-> IF k = i THEN s[j] ELSE IF k = j THEN s[i] ELSE s[k]]

\* same sender, receiver, amount and timestamp
SameButId(t, u) ==
    /\ t.sender_id = u.sender_id
    /\ t.receiver_id = u.receiver_id
    /\ t.amount = u.amount
    /\ t.timestamp = u.timestamp

-----------------------------------------------------------------------------
(* The state machine: one analyze() call after the other on one engine.    *)

NoGraph == GraphBuild(<<>>)

NoLegit == [legitimateAccounts |-> {}, legitimateHubs |-> {}]

\* the locals of analyze() before its first statement
FreshLocals ==
    /\ graph' = NoGraph
    /\ cycles' = <<>>
    /\ smurfingGroups' = <<>>
    /\ shellChains' = <<>>
    /\ fraudRings' = <<>>
    /\ accountSuspicionMap' = EmptyMap
    /\ legit' = NoLegit
    /\ filteredAccounts' = <<>>
    /\ filteredRings' = <<>>
    /\ ringsWithIds' = <<>>
    /\ scoredAccounts' = <<>>
    /\ scoredRings' = <<>>

Init ==
    /\ transactions \in Batches
    /\ results = <<>>
    /\ pc = "build"
    /\ graph = NoGraph
    /\ cycles = <<>>
    /\ smurfingGroups = <<>>
    /\ shellChains = <<>>
    /\ fraudRings = <<>>
    /\ accountSuspicionMap = EmptyMap
    /\ legit = NoLegit
    /\ filteredAccounts = <<>>
    /\ filteredRings = <<>>
    /\ ringsWithIds = <<>>
    /\ scoredAccounts = <<>>
    /\ scoredRings = <<>>
    /\ run = "first"
    /\ firstInput = transactions
    /\ firstResults = <<>>
    /\ requests = <<>>
    /\ resultsStore = EmptyMap
    /\ now = 0
    /\ calls = <<>>
    /\ modifier = NoModifier

\* step 1: new GraphBuilder(this.transactions).build()
StepBuild ==
    /\ UNCHANGED <<hostVars, modifier>>
    /\ pc = "build"
    /\ graph' = GraphBuild(transactions)
    /\ pc' = "cycles"
    /\ UNCHANGED <<transactions, results, cycles, smurfingGroups, shellChains, fraudRings,
                   accountSuspicionMap, legit, filteredAccounts, filteredRings, ringsWithIds,
                   scoredAccounts, scoredRings, run, firstInput, firstResults>>

\* step 2: cycleDetector.detect()
StepCycles ==
    /\ UNCHANGED <<hostVars, modifier>>
    /\ pc = "cycles"
    /\ cycles' = CycleDetect(graph.adjacencyList)
    /\ pc' = "smurfing"
    /\ UNCHANGED <<transactions, results, graph, smurfingGroups, shellChains, fraudRings,
                   accountSuspicionMap, legit, filteredAccounts, filteredRings, ringsWithIds,
                   scoredAccounts, scoredRings, run, firstInput, firstResults>>

\* step 3: smurfingDetector.detect()
StepSmurfing ==
    /\ UNCHANGED <<hostVars, modifier>>
    /\ pc = "smurfing"
    /\ smurfingGroups' = SmurfDetect(graph)
    /\ pc' = "shells"
    /\ UNCHANGED <<transactions, results, graph, cycles, shellChains, fraudRings,
                   accountSuspicionMap, legit, filteredAccounts, filteredRings, ringsWithIds,
                   scoredAccounts, scoredRings, run, firstInput, firstResults>>

\* step 4: shellDetector.detect()
StepShells ==
    /\ UNCHANGED <<hostVars, modifier>>
    /\ pc = "shells"
    /\ shellChains' = ShellDetect(graph)
    /\ pc' = "rings"
    /\ UNCHANGED <<transactions, results, graph, cycles, smurfingGroups, fraudRings,
                   accountSuspicionMap, legit, filteredAccounts, filteredRings, ringsWithIds,
                   scoredAccounts, scoredRings, run, firstInput, firstResults>>

\* step 5: the three loops that fill fraudRings and accountSuspicionMap
StepRings ==
    /\ UNCHANGED <<hostVars, modifier>>
    /\ pc = "rings"
    /\ LET st == BuildRings(graph, cycles, smurfingGroups, shellChains)
       IN  /\ fraudRings' = st.rings
           /\ accountSuspicionMap' = st.map
    /\ pc' = "legitimate"
    /\ UNCHANGED <<transactions, results, graph, cycles, smurfingGroups, shellChains,
                   legit, filteredAccounts, filteredRings, ringsWithIds,
                   scoredAccounts, scoredRings, run, firstInput, firstResults>>

\* a detectLegitimate() that sorts the incoming edge lists by timestamp in place
StepLegitimateSortingEdges ==
    /\ UNCHANGED <<hostVars, modifier>>
    /\ pc = "legitimate"
    /\ legit' = DetectLegitimate(graph)
    /\ graph' = [graph EXCEPT !.reverseAdjList.val =
                                  [n \in DOMAIN @ |-> SortAsc(@[n], EdgeTimestamp)]]
    /\ pc' = "filter"
    /\ UNCHANGED <<transactions, results, cycles, smurfingGroups, shellChains, fraudRings,
                   accountSuspicionMap, filteredAccounts, filteredRings, ringsWithIds,
                   scoredAccounts, scoredRings, run, firstInput, firstResults>>

\* step 6, first half: fpFilter.detectLegitimate()
StepLegitimate ==
    /\ UNCHANGED <<hostVars, modifier>>
    /\ pc = "legitimate"
    /\ legit' = DetectLegitimate(graph)
    /\ pc' = "filter"
    /\ UNCHANGED <<transactions, results, graph, cycles, smurfingGroups, shellChains, fraudRings,
                   accountSuspicionMap, filteredAccounts, filteredRings, ringsWithIds,
                   scoredAccounts, scoredRings, run, firstInput, firstResults>>

\* step 6, second half: the suspicious accounts list, filterResults and the sort
StepFilter ==
    /\ UNCHANGED <<hostVars, modifier>>
    /\ pc = "filter"
    /\ LET f == FilterResults(legit, SuspiciousAccounts(accountSuspicionMap), fraudRings)
       IN  /\ filteredAccounts' = SortDesc(f.filteredAccounts, SuspicionScore)
           /\ filteredRings' = f.filteredRings
    /\ pc' = "merge"
    /\ UNCHANGED <<transactions, results, graph, cycles, smurfingGroups, shellChains, fraudRings,
                   accountSuspicionMap, legit, ringsWithIds,
                   scoredAccounts, scoredRings, run, firstInput, firstResults>>

\* _mergeOverlappingRings and the reassignment of the ring ids
StepMerge ==
    /\ UNCHANGED <<hostVars, modifier>>
    /\ pc = "merge"
    /\ ringsWithIds' = ReassignRingIds(MergeOverlappingRings(filteredRings))
    /\ pc' = "scoreAccounts"
    /\ UNCHANGED <<transactions, results, graph, cycles, smurfingGroups, shellChains, fraudRings,
                   accountSuspicionMap, legit, filteredAccounts, filteredRings,
                   scoredAccounts, scoredRings, run, firstInput, firstResults>>

\* accountsWithRingIds and scoringEngine.scoreAllAccounts
StepScoreAccounts ==
    /\ UNCHANGED <<hostVars, modifier>>
    /\ pc = "scoreAccounts"
    /\ scoredAccounts' = ScoreAllAccounts(graph, AccountsWithRingIds(filteredAccounts, ringsWithIds))
    /\ pc' = "scoreRings"
    /\ UNCHANGED <<transactions, results, graph, cycles, smurfingGroups, shellChains, fraudRings,
                   accountSuspicionMap, legit, filteredAccounts, filteredRings, ringsWithIds,
                   scoredRings, run, firstInput, firstResults>>

\* scoringEngine.scoreAllRings
StepScoreRings ==
    /\ UNCHANGED <<hostVars, modifier>>
    /\ pc = "scoreRings"
    /\ scoredRings' = ScoreAllRings(transactions, ringsWithIds, scoredAccounts)
    /\ pc' = "finish"
    /\ UNCHANGED <<transactions, results, graph, cycles, smurfingGroups, shellChains, fraudRings,
                   accountSuspicionMap, legit, filteredAccounts, filteredRings, ringsWithIds,
                   scoredAccounts, run, firstInput, firstResults>>

\* this.results = {...}; return: the clock decides processing_time_seconds
StepFinish ==
    /\ UNCHANGED <<hostVars, modifier>>
    /\ pc = "finish"
    /\ \E elapsedMs \in {0, MaxElapsedMs} :
          results' = <<AnalyzeResults(graph, scoredAccounts, scoredRings, elapsedMs)>>
    /\ firstResults' = IF run = "first" THEN results' ELSE firstResults
    /\ pc' = "done"
    /\ UNCHANGED <<transactions, graph, cycles, smurfingGroups, shellChains, fraudRings,
                   accountSuspicionMap, legit, filteredAccounts, filteredRings, ringsWithIds,
                   scoredAccounts, scoredRings, run, firstInput>>

\* analyze() is called once more on the same transactions
AnalyzeAgain ==
    /\ UNCHANGED <<hostVars, modifier>>
    /\ pc = "done"
    /\ run = "first"
    /\ run' = "again"
    /\ pc' = "build"
    /\ FreshLocals
    /\ UNCHANGED <<transactions, results, firstInput, firstResults>>

\* analyze() is called on the batch with two transactions that differ only in their
\* transaction_id exchanged
AnalyzeSwapped ==
    /\ UNCHANGED <<hostVars, modifier>>
    /\ pc = "done"
    /\ run = "first"
    /\ \E i, j \in 1..Len(transactions) :
          /\ i < j
          /\ SameButId(transactions[i], transactions[j])
          /\ transactions' = Swap(transactions, i, j)
    /\ run' = "swapped"
    /\ pc' = "build"
    /\ FreshLocals
    /\ UNCHANGED <<results, firstInput, firstResults>>

Next ==
    \/ StepBuild
    \/ StepCycles
    \/ StepSmurfing
    \/ StepShells
    \/ StepRings
    \/ StepLegitimate
    \/ StepFilter
    \/ StepMerge
    \/ StepScoreAccounts
    \/ StepScoreRings
    \/ StepFinish
    \/ AnalyzeAgain
    \/ AnalyzeSwapped

Spec == Init /\ [][Next]_vars

-----------------------------------------------------------------------------
(* server.js: the handler of POST /api/analyze.                            *)
(* Transaction and account ids are naturals with 0 for the empty string.   *)
(* A CSV cell of the amount or timestamp column is a number, a text that   *)
(* is no number (no date), or empty.  The handler suspends once, at the    *)
(* await of parseCSV; what follows the await runs without interruption.    *)

\* analyze() from scoreAllAccounts to its return
AnalyzeFromScoring(txs, g, accs, rs, elapsedMs) ==
    The({AnalyzeResults(g, sa, ScoreAllRings(txs, rs, sa), elapsedMs) :
            sa \in {ScoreAllAccounts(g, AccountsWithRingIds(accs, rs))}})

\* analyze() from the sort of the filtered accounts to its return
AnalyzeFromMerge(txs, g, f, elapsedMs) ==
    The({AnalyzeFromScoring(txs, g, SortDesc(f.filteredAccounts, SuspicionScore), rs, elapsedMs) :
            rs \in {ReassignRingIds(MergeOverlappingRings(f.filteredRings))}})

\* analyze() from step 6 to its return
AnalyzeFromFilter(txs, g, st, elapsedMs) ==
    The({AnalyzeFromMerge(txs, g, f, elapsedMs) :
            f \in {FilterResults(DetectLegitimate(g), SuspiciousAccounts(st.map), st.rings)}})

\* analyze() from step 2 to its return
AnalyzeFromGraph(txs, g, elapsedMs) ==
    The({AnalyzeFromFilter(txs, g, st, elapsedMs) :
            st \in {BuildRings(g, CycleDetect(g.adjacencyList), SmurfDetect(g), ShellDetect(g))}})

\* analyze() from its first statement to its return
Analyze(txs, elapsedMs) ==
    The({AnalyzeFromGraph(txs, g, elapsedMs) : g \in {GraphBuild(txs)}})

NumberCell(n) == [kind |-> "number", n |-> n]

TextCell == [kind |-> "text", n |-> 0]

EmptyCell == [kind |-> "empty", n |-> 0]

\* one line of the uploaded CSV
Line(id, s, r, amountCell, timestampCell) ==
    [transaction_id |-> id, sender_id |-> s, receiver_id |-> r,
     amount |-> amountCell, timestamp |-> timestampCell]

\* the JS number NaN and the JS number n
NaN == [nan |-> TRUE, n |-> 0]

Num(n) == [nan |-> FALSE, n |-> n]

\* parseFloat(normalized.amount || '0')
ParseAmount(cell) ==
    IF cell.kind = "empty" THEN Num(0)
    ELSE IF cell.kind = "text" THEN NaN
    ELSE Num(cell.n)

\* parseCSV: one object per line, the amount parsed, the rest as text
ParseCSV(lines) ==
    [i \in 1..Len(lines) |->
        [transaction_id |-> lines[i].transaction_id,
         sender_id      |-> lines[i].sender_id,
         receiver_id    |-> lines[i].receiver_id,
         amount         |-> ParseAmount(lines[i].amount),
         timestamp      |-> lines[i].timestamp]]

\* !tx.timestamp || isNaN(Date.parse(tx.timestamp)) is false
TimestampParses(cell) == cell.kind = "number"

\* the checks of validateTransactions without the self-transfer check
ValidRowWithSelfTransfer(tx) ==
    /\ tx.transaction_id # 0
    /\ tx.sender_id # 0
    /\ tx.receiver_id # 0
    /\ ~tx.amount.nan /\ tx.amount.n > 0
    /\ TimestampParses(tx.timestamp)

\* the row passes every check of the loop of validateTransactions
ValidRow(tx) ==
    /\ tx.transaction_id # 0
    /\ tx.sender_id # 0
    /\ tx.receiver_id # 0
    /\ ~tx.amount.nan /\ tx.amount.n > 0
    /\ TimestampParses(tx.timestamp)
    /\ tx.sender_id # tx.receiver_id

\* validTransactions of validateTransactions
ValidTransactions(txs) == Keep(txs, [i \in 1..Len(txs) |-> ValidRow(txs[i])])

\* a validation that accepts a batch of which no row remains
ValidateLeniently(txs) ==
    [valid |-> TRUE, error |-> "", transactions |-> ValidTransactions(txs)]

\* validateTransactions: its return value and the array it leaves behind
ValidateTransactions(txs) ==
    IF Len(txs) = 0
    THEN [valid |-> FALSE, error |-> "CSV file is empty or has no valid rows", transactions |-> txs]
    ELSE IF Len(ValidTransactions(txs)) = 0
    THEN [valid |-> FALSE, error |-> "No valid transactions found in CSV", transactions |-> txs]
    ELSE [valid |-> TRUE, error |-> "", transactions |-> ValidTransactions(txs)]

\* the transaction as the engine reads it: the amount as a number, the timestamp
\* through new Date()
EngineTx(tx) ==
    Tx(tx.transaction_id, tx.sender_id, tx.receiver_id, tx.amount.n, tx.timestamp.n)

EngineBatch(txs) == [i \in 1..Len(txs) |-> EngineTx(txs[i])]

\* how many results the store keeps
MAX_STORED == 20

\* resultsStore.set, then the deletion of the oldest key above MAX_STORED entries
StoreResults(store, sessionId, res) ==
    LET s == MapSet(store, sessionId, res)
    IN  IF Len(s.keys) > MAX_STORED
        THEN [keys |-> Tail(s.keys),
              val  |-> [k \in DOMAIN s.val \ {Head(s.keys)} |-> s.val[k]]]
        ELSE s

\* the requests in flight
Requests == 1..2

\* the most lines that fail a check in an uploaded file
MaxBadRows == 2

\* the clock may tick by itself up to this time
MaxNow == 1

\* Math.random() yields one of the values 0..MaxRandom
MaxRandom == 1

\* three transfers round a triangle among lines that fail one check each
MixedCsv ==
    << Line(1, 1, 2, NumberCell(5000), NumberCell(10)),
       Line(0, 2, 3, NumberCell(4900), NumberCell(11)),
       Line(3, 2, 2, NumberCell(4900), NumberCell(11)),
       Line(4, 2, 3, NumberCell(4900), NumberCell(11)),
       Line(5, 3, 1, TextCell, NumberCell(12)),
       Line(6, 3, 1, EmptyCell, NumberCell(12)),
       Line(7, 0, 1, NumberCell(4800), NumberCell(12)),
       Line(8, 3, 1, NumberCell(4800), NumberCell(12)),
       Line(9, 3, 0, NumberCell(4800), NumberCell(12)),
       Line(10, 1, 3, NumberCell(4800), TextCell) >>

\* four transfers round a square
SquareCsv ==
    << Line(21, 4, 5, NumberCell(700), NumberCell(20)),
       Line(22, 5, 6, NumberCell(700), NumberCell(21)),
       Line(23, 6, 7, NumberCell(700), NumberCell(22)),
       Line(24, 7, 4, NumberCell(700), NumberCell(23)) >>

\* the positions of the lines of MixedCsv that pass every check
GoodLines == {1, 4, 8}

\* the uploads of the first request: up to MaxBadRows of the failing lines of
\* MixedCsv, alone or among the three lines that pass
Files ==
    {Without(MixedCsv, (1..Len(MixedCsv)) \ (G \cup D)) :
        G \in {{}, GoodLines},
        D \in SubsetsUpTo((1..Len(MixedCsv)) \ GoodLines, MaxBadRows)}

\* the uploads of the second request
OtherFiles == {SquareCsv, <<>>}

\* a request as it arrives; file is <<>> when the upload has no file
NewRequest(file) == [pc |-> "received", file |-> file, transactions |-> <<>>, response |-> <<>>]

HostInit ==
    /\ requests \in {<<NewRequest(f1), NewRequest(f2)>> :
                        f1 \in {<<>>} \cup {<<f>> : f \in Files},
                        f2 \in {<<>>} \cup {<<f>> : f \in OtherFiles}}
    /\ resultsStore = EmptyMap
    /\ now = 0
    /\ calls = <<>>
    /\ modifier = NoModifier
    /\ transactions = <<>>
    /\ results = <<>>
    /\ pc = "build"
    /\ graph = NoGraph
    /\ cycles = <<>>
    /\ smurfingGroups = <<>>
    /\ shellChains = <<>>
    /\ fraudRings = <<>>
    /\ accountSuspicionMap = EmptyMap
    /\ legit = NoLegit
    /\ filteredAccounts = <<>>
    /\ filteredRings = <<>>
    /\ ringsWithIds = <<>>
    /\ scoredAccounts = <<>>
    /\ scoredRings = <<>>
    /\ run = "first"
    /\ firstInput = <<>>
    /\ firstResults = <<>>

\* res.status(...).json(...) ends request r
Respond(r, txs, response) ==
    requests' = [requests EXCEPT ![r] = [pc |-> "responded", file |-> requests[r].file,
                                         transactions |-> txs, response |-> <<response>>]]

\* "if (!req.file)": 400
RejectNoFile(r) ==
    /\ requests[r].pc = "received"
    /\ requests[r].file = <<>>
    /\ Respond(r, <<>>, [status |-> 400, error |-> "No CSV file provided"])
    /\ UNCHANGED <<resultsStore, now>>
    /\ UNCHANGED <<engineVars, modifier, calls>>

\* the handler reaches "await parseCSV(csvString)" and yields
StartParse(r) ==
    /\ requests[r].pc = "received"
    /\ requests[r].file # <<>>
    /\ requests' = [requests EXCEPT ![r].pc = "parsing"]
    /\ UNCHANGED <<resultsStore, now>>
    /\ UNCHANGED <<engineVars, modifier, calls>>

\* parseCSV resolves and validateTransactions answers valid: false: 400
RejectInvalid(r) ==
    /\ requests[r].pc = "parsing"
    /\ LET validation == ValidateTransactions(ParseCSV(requests[r].file[1]))
       IN  /\ ~validation.valid
           /\ Respond(r, validation.transactions, [status |-> 400, error |-> validation.error])
    /\ UNCHANGED <<resultsStore, now>>
    /\ UNCHANGED <<engineVars, modifier, calls>>

\* parseCSV resolves, the rows are valid: analyze, store, respond
AnalyzeRequest(r) ==
    /\ requests[r].pc = "parsing"
    /\ LET validation == ValidateTransactions(ParseCSV(requests[r].file[1]))
       IN  /\ validation.valid
           /\ \E elapsedMs \in {0, MaxElapsedMs} :
                 \E res \in {Analyze(EngineBatch(validation.transactions), elapsedMs)} :
                    \E random \in 0..MaxRandom :
                       LET sessionId == <<now + elapsedMs, random>>
                       IN  /\ now' = now + elapsedMs
                           /\ resultsStore' = StoreResults(resultsStore, sessionId, res)
                           /\ Respond(r, validation.transactions,
                                      [status |-> 200, success |-> TRUE,
                                       sessionId |-> sessionId, results |-> res])
    /\ UNCHANGED <<engineVars, modifier, calls>>

\* a millisecond passes
Tick ==
    /\ now < MaxNow
    /\ now' = now + 1
    /\ UNCHANGED <<requests, resultsStore>>
    /\ UNCHANGED <<engineVars, modifier, calls>>

HostNext ==
    \/ \E r \in Requests : RejectNoFile(r)
    \/ \E r \in Requests : StartParse(r)
    \/ \E r \in Requests : RejectInvalid(r)
    \/ \E r \in Requests : AnalyzeRequest(r)
    \/ Tick

HostSpec == HostInit /\ [][HostNext]_vars

-----------------------------------------------------------------------------
(* Properties.                                                             *)

\* the account ids of a list of account records
AccountIds(accounts) == {accounts[i].account_id : i \in 1..Len(accounts)}

\* the member set of a ring
Members(ring) == Range(ring.member_accounts)

\* C1: in the result of analyze no account of legitimate_accounts is among
\* suspicious_accounts, and no ring of fraud_rings, merged or not, has a
\* member that is a legitimate hub.
C1_FilterSafety ==
    pc = "done" =>
        /\ AccountIds(results[1].suspicious_accounts) \cap legit.legitimateAccounts = {}
        /\ \A i \in 1..Len(results[1].fraud_rings) :
              Members(results[1].fraud_rings[i]) \cap legit.legitimateHubs = {}

\* a run that flagged a legitimate counterparty and built a ring through a
\* legitimate hub, and still returned a ring
C1_Witness ==
    /\ pc = "done"
    /\ Range(accountSuspicionMap.keys) \cap legit.legitimateAccounts # {}
    /\ \E i \in 1..Len(fraudRings) : Members(fraudRings[i]) \cap legit.legitimateHubs # {}
    /\ results[1].fraud_rings # <<>>
    /\ results[1].suspicious_accounts # <<>>

\* |A \cap B| / min(|A|, |B|) > 0.5
OverlapsByHalf(A, B) == 2 * Cardinality(A \cap B) > Min2(Cardinality(A), Cardinality(B))

\* C2: in the output of the ring merger any two distinct rings of the same
\* pattern_type overlap in at most half of the smaller one, also when one of
\* them is the union of several input rings.
C2_MergedRingsDisjointEnough ==
    \A i, j \in 1..Len(ringsWithIds) :
        (i < j /\ ringsWithIds[i].pattern_type = ringsWithIds[j].pattern_type)
            => ~OverlapsByHalf(Members(ringsWithIds[i]), Members(ringsWithIds[j]))

\* is there an edge from a to b in the graph
HasEdge(g, a, b) ==
    \E k \in 1..Len(GetOr(g.adjacencyList, a)) : GetOr(g.adjacencyList, a)[k].to = b

\* the rotations of a cycle
Rotations(c) == {SubSeq(c, k, Len(c)) \o SubSeq(c, 1, k - 1) : k \in 1..Len(c)}

\* C3: every cycle returned by detect is a simple directed cycle of the graph
\* on 3 to 5 distinct nodes, starts at its smallest node, and no two returned
\* cycles are rotations of one another.
C3_CyclesCanonical ==
    /\ \A i \in 1..Len(cycles) :
         LET c == cycles[i] IN
         /\ Len(c) >= 3
         /\ Len(c) <= 5
         /\ Cardinality(Range(c)) = Len(c)
         /\ \A k \in 1..Len(c) : HasEdge(graph, c[k], c[(k % Len(c)) + 1])
         /\ \A k \in 2..Len(c) : c[1] < c[k]
    /\ \A i, j \in 1..Len(cycles) : i # j => cycles[j] \notin Rotations(cycles[i])

\* cycles of three and of five nodes were returned, one of them found twice
\* by the search (along parallel edges)
C3_Witness ==
    /\ \E i \in 1..Len(cycles) : Len(cycles[i]) = 5
    /\ \E i \in 1..Len(cycles) : Len(cycles[i]) = 3
    /\ Len(cycleSeeds(graph.adjacencyList, SortNum(graph.adjacencyList.keys), <<>>)) > Len(cycles)

\* C4: every chain returned by ShellNetworkDetector.detect has 4 to 7 pairwise
\* distinct nodes, every interior node is a shell (tx_count <= 3, in_degree >= 1,
\* out_degree >= 1), neither endpoint is one, and each hop amount is at most the
\* one before it and at most 10,000 below it.
C4_ShellChainsWellFormed ==
    \A i \in 1..Len(shellChains) :
        LET c  == shellChains[i].chain
            a  == shellChains[i].amounts
            md == graph.nodeMetadata.val
        IN  /\ Len(c) >= 4
            /\ Len(c) <= 7
            /\ Cardinality(Range(c)) = Len(c)
            /\ \A k \in 2..(Len(c) - 1) :
                  md[c[k]].txCount <= 3 /\ md[c[k]].inDegree >= 1 /\ md[c[k]].outDegree >= 1
            /\ \A k \in {1, Len(c)} :
                  ~(md[c[k]].txCount <= 3 /\ md[c[k]].inDegree >= 1 /\ md[c[k]].outDegree >= 1)
            /\ Len(a) = Len(c) - 1
            /\ \A k \in 2..Len(a) : a[k] <= a[k - 1] /\ a[k - 1] - a[k] <= 10000

\* a chain was returned although a shell on it also forwards an amount that is more
\* than 10,000 lower
C4_Witness ==
    \E i \in 1..Len(shellChains) :
        LET c == shellChains[i].chain
            a == shellChains[i].amounts
        IN  \E k \in 2..(Len(c) - 1) :
               \E e \in Range(GetOr(graph.adjacencyList, c[k])) :
                  a[k - 1] - e.amount > 10000

\* C5: every suspicion_score of suspicious_accounts and every risk_score of
\* fraud_rings returned by analyze lies in [0, 100] and is a multiple of 0.1
\* (scores are in thousandths of a point: 0..100000, multiples of 100).
C5_ScoresInRange ==
    pc = "done" =>
        /\ \A i \in 1..Len(results[1].suspicious_accounts) :
              LET s == results[1].suspicious_accounts[i].suspicion_score
              IN  s >= 0 /\ s <= 100000 /\ s % 100 = 0
        /\ \A i \in 1..Len(results[1].fraud_rings) :
              LET s == results[1].fraud_rings[i].risk_score
              IN  s >= 0 /\ s <= 100000 /\ s % 100 = 0

\* a result with an account score that is not a whole number of points and a ring
\* whose unclamped risk (member average plus the two bonuses) is above 100
C5_Witness ==
    /\ pc = "done"
    /\ \E i \in 1..Len(results[1].suspicious_accounts) :
          results[1].suspicious_accounts[i].suspicion_score % 1000 # 0
    /\ \E i \in 1..Len(results[1].fraud_rings) :
          LET d == results[1].fraud_rings[i].risk_details
          IN  d.base_score + 1000 * (d.time_compression + d.flow_through) > 100000

\* the transactions of the batch sent, or received, by account n
SentBy(n) == FilterSeq(transactions, LAMBDA tx : tx.sender_id = n)

ReceivedBy(n) == FilterSeq(transactions, LAMBDA tx : tx.receiver_id = n)

\* C6: after GraphBuilder.build the sender_id and the receiver_id of every input
\* transaction are keys of the forward adjacency map, of the reverse adjacency
\* map and of the node-metadata map, with an empty list where the account has
\* no edge in that direction.
C6_EndpointsAreKeys ==
    pc = "cycles" =>
        \A i \in 1..Len(transactions) :
            \A n \in {transactions[i].sender_id, transactions[i].receiver_id} :
                /\ n \in Range(graph.adjacencyList.keys)
                /\ n \in DOMAIN graph.adjacencyList.val
                /\ n \in Range(graph.reverseAdjList.keys)
                /\ n \in DOMAIN graph.reverseAdjList.val
                /\ n \in Range(graph.nodeMetadata.keys)
                /\ n \in DOMAIN graph.nodeMetadata.val
                /\ (SentBy(n) = <<>> => graph.adjacencyList.val[n] = <<>>)
                /\ (ReceivedBy(n) = <<>> => graph.reverseAdjList.val[n] = <<>>)

\* a graph was built from a batch with an account that only receives and an
\* account that only sends
C6_Witness ==
    /\ pc = "cycles"
    /\ \E i \in 1..Len(transactions) : SentBy(transactions[i].receiver_id) = <<>>
    /\ \E i \in 1..Len(transactions) : ReceivedBy(transactions[i].sender_id) = <<>>
    /\ Len(graph.nodes) >= 3

\* C7: after GraphBuilder.build, for every account: txCount = outDegree +
\* inDegree, outDegree and inDegree count the account's transactions with
\* multiplicity, totalSent is the sum of the amounts it sent and totalReceived the
\* sum of the amounts it received.
C7_MetadataTotals ==
    pc = "cycles" =>
        \A n \in Range(graph.nodeMetadata.keys) :
            LET meta == graph.nodeMetadata.val[n] IN
            /\ meta.txCount = meta.outDegree + meta.inDegree
            /\ meta.outDegree = Len(SentBy(n))
            /\ meta.inDegree = Len(ReceivedBy(n))
            /\ meta.totalSent = SumSeq(MapSeq(SentBy(n), TxAmount))
            /\ meta.totalReceived = SumSeq(MapSeq(ReceivedBy(n), TxAmount))

\* a graph with an account that sent twice to the same receiver and both sent and
\* received different amounts
C7_Witness ==
    /\ pc = "cycles"
    /\ \E n \in Range(graph.nodeMetadata.keys) :
          LET meta == graph.nodeMetadata.val[n] IN
          /\ meta.outDegree > meta.uniqueReceivers
          /\ meta.inDegree >= 1
          /\ meta.totalSent # meta.totalReceived
          /\ meta.totalSent > meta.outDegree

CountsOf(summary) ==
    <<summary.total_accounts_analyzed, summary.suspicious_accounts_flagged,
      summary.fraud_rings_detected>>

MemberSets(rings) == [i \in 1..Len(rings) |-> Members(rings[i])]

\* C9: swapping the input positions of two transactions that differ only in their
\* transaction_id changes neither the set of suspicious account ids nor the
\* member set of any fraud ring returned by analyze.
C9_SwapInvariance ==
    (run = "swapped" /\ pc = "done") =>
        /\ AccountIds(results[1].suspicious_accounts)
             = AccountIds(firstResults[1].suspicious_accounts)
        /\ MemberSets(results[1].fraud_rings) = MemberSets(firstResults[1].fraud_rings)

\* analyze has finished on a batch that differs from the first one in the order of
\* two transaction ids, and returned rings
C9_Witness ==
    /\ run = "swapped"
    /\ pc = "done"
    /\ transactions # firstInput
    /\ \E i, j \in 1..Len(transactions) :
          /\ i < j
          /\ transactions = Swap(firstInput, i, j)
          /\ SameButId(firstInput[i], firstInput[j])
    /\ results[1].fraud_rings # <<>>
    /\ results[1].suspicious_accounts # <<>>

\* the position of the first ring before the merge that went into output ring k
FirstInputOf(k) ==
    LET into == {i \in 1..Len(filteredRings) :
                   /\ filteredRings[i].pattern_type = results[1].fraud_rings[k].pattern_type
                   /\ Members(filteredRings[i]) \subseteq Members(results[1].fraud_rings[k])}
    IN  CHOOSE i \in into : \A j \in into : i <= j

\* C10: in the result of analyze the ring at position i has the ring_id RING_
\* followed by i padded with zeros to three digits; the ids are given after the
\* merge, are pairwise distinct, and the rings stand in the order of the merger,
\* each merged group at the position of its first input ring.
C10_RingIdsByPosition ==
    pc = "done" =>
        LET rings == results[1].fraud_rings IN
        /\ \A i \in 1..Len(rings) :
              rings[i].ring_id = <<"RING_", i \div 100, (i \div 10) % 10, i % 10>>
        /\ \A i, j \in 1..Len(rings) : i # j => rings[i].ring_id # rings[j].ring_id
        /\ Len(rings) <= Len(filteredRings)
        /\ \A i \in 1..Len(filteredRings) :
              \E k \in 1..Len(rings) : Members(filteredRings[i]) \subseteq Members(rings[k])
        /\ \A k \in 1..Len(rings) :
              \E i \in 1..Len(filteredRings) :
                 Members(filteredRings[i]) \subseteq Members(rings[k])
        /\ \A k \in 2..Len(rings) : FirstInputOf(k - 1) < FirstInputOf(k)

\* a result with several rings, fewer than before the merge, one of which had
\* another id before the merge
C10_Witness ==
    /\ pc = "done"
    /\ Len(results[1].fraud_rings) >= 2
    /\ Len(filteredRings) > Len(results[1].fraud_rings)
    /\ \E k \in 1..Len(results[1].fraud_rings) :
          MergeOverlappingRings(filteredRings)[k].ring_id # results[1].fraud_rings[k].ring_id

\* the union-find forest of the merger on the rings that passed the filter
MergeParent ==
    UnionPairs(filteredRings, [i \in 1..Len(filteredRings) |-> i], 1, 2)

\* the positions of the input rings that went into output ring k of the merger
GroupOf(k) ==
    LET roots == RootsInOrder(MergeParent, Len(filteredRings))
    IN  {i \in 1..Len(filteredRings) : Find(MergeParent, i) = roots[k]}

\* the fields a ring has besides ring_id, member_accounts, pattern_type, risk_score
KindFields ==
    {"cycle_length", "chain_length", "amount_pattern", "temporal_window_hours",
     "aggregatorNode", "disperserNode"}

\* C11: a ring the merger made of two or more rings has as member_accounts
\* exactly the union of the members of its group, and its kind-specific fields
\* (cycle_length, chain_length, amount_pattern, temporal_window_hours,
\* aggregatorNode, disperserNode) are those of the first ring of the group.
C11_MergedRingKeepsFields ==
    (pc \in {"scoreAccounts", "scoreRings", "finish", "done"} /\ Len(filteredRings) > 1) =>
        \A k \in 1..Len(ringsWithIds) :
            Cardinality(GroupOf(k)) >= 2 =>
                LET first == filteredRings[CHOOSE i \in GroupOf(k) : \A j \in GroupOf(k) : i <= j]
                IN  /\ Members(ringsWithIds[k])
                         = UNION {Members(filteredRings[i]) : i \in GroupOf(k)}
                    /\ \A f \in KindFields \cap DOMAIN first :
                          /\ f \in DOMAIN ringsWithIds[k]
                          /\ ringsWithIds[k][f] = first[f]

\* the members of a raw ring that are not legitimate accounts, in their order
Remaining(ring) ==
    SelectSeq(ring.member_accounts, LAMBDA id : id \notin legit.legitimateAccounts)

\* a raw ring is discarded: its aggregatorNode or disperserNode is a legitimate
\* hub, or a member is one, or fewer than 3 members remain
Discarded(ring) ==
    \/ \E f \in {"aggregatorNode", "disperserNode"} \cap DOMAIN ring :
          ring[f] # <<>> /\ ring[f][1] \in legit.legitimateHubs
    \/ Members(ring) \cap legit.legitimateHubs # {}
    \/ Len(Remaining(ring)) < 3

\* the positions of the raw rings that are kept
KeptRings == {i \in 1..Len(fraudRings) : ~Discarded(fraudRings[i])}

\* C12: filterResults discards a raw ring iff its aggregatorNode or disperserNode
\* is in legitimate_hubs, or a member is in legitimate_hubs, or fewer than 3
\* members remain without the legitimate accounts; a kept ring has its original
\* members without the legitimate accounts, in the original order; so every ring
\* of the final fraud_rings has at least 3 members.
C12_RingFilter ==
    /\ pc = "merge" =>
          /\ Len(filteredRings) = Cardinality(KeptRings)
          /\ \A i \in KeptRings :
                LET k == Cardinality({j \in KeptRings : j <= i})
                IN  /\ filteredRings[k].ring_id = fraudRings[i].ring_id
                    /\ filteredRings[k].member_accounts = Remaining(fraudRings[i])
    /\ pc = "done" =>
          \A i \in 1..Len(results[1].fraud_rings) :
             /\ Len(results[1].fraud_rings[i].member_accounts) >= 3
             /\ Cardinality(Members(results[1].fraud_rings[i])) >= 3

\* the filter has run on rings of which one has a legitimate hub as member, one
\* keeps fewer than 3 members, and one is kept with a member removed
C12_Witness ==
    /\ pc = "merge"
    /\ \E i \in 1..Len(fraudRings) : Members(fraudRings[i]) \cap legit.legitimateHubs # {}
    /\ \E i \in 1..Len(fraudRings) :
          /\ Members(fraudRings[i]) \cap legit.legitimateHubs = {}
          /\ Len(Remaining(fraudRings[i])) < 3
    /\ \E i \in KeptRings : Len(Remaining(fraudRings[i])) < Len(fraudRings[i].member_accounts)

\* C13: suspicious_accounts of the result is ordered by the final
\* suspicion_score, highest first (non-increasing), and holds each account_id
\* at most once.
C13_AccountsSortedOnce ==
    pc = "done" =>
        LET accs == results[1].suspicious_accounts
        IN  /\ \A i \in 1..(Len(accs) - 1) :
                  accs[i].suspicion_score >= accs[i + 1].suspicion_score
            /\ \A i, j \in 1..Len(accs) :
                  accs[i].account_id = accs[j].account_id => i = j

\* a result with accounts of different scores whose order is not the order in
\* which the accounts entered scoring
C13_Witness ==
    /\ pc = "done"
    /\ Len(results[1].suspicious_accounts) >= 3
    /\ \E i, j \in 1..Len(results[1].suspicious_accounts) :
          results[1].suspicious_accounts[i].suspicion_score
              > results[1].suspicious_accounts[j].suspicion_score
    /\ \E i \in 1..Len(filteredAccounts) :
          filteredAccounts[i].account_id # results[1].suspicious_accounts[i].account_id

\* C14: analyze() on an empty transaction list completes: every stage can run,
\* and the result has empty suspicious_accounts and fraud_rings and the summary
\* counts total_accounts_analyzed, suspicious_accounts_flagged and
\* fraud_rings_detected equal to 0.
C14_EmptyBatch ==
    transactions = <<>> =>
        /\ pc # "done" => ENABLED Next
        /\ pc = "done" =>
              /\ results[1].suspicious_accounts = <<>>
              /\ results[1].fraud_rings = <<>>
              /\ results[1].summary.total_accounts_analyzed = 0
              /\ results[1].summary.suspicious_accounts_flagged = 0
              /\ results[1].summary.fraud_rings_detected = 0

\* analyze() has returned for the batch of no transaction
C14_Witness ==
    /\ transactions = <<>>
    /\ pc = "done"
    /\ Len(results) = 1

\* the requests that were answered with status s
Answered(s) ==
    {r \in Requests : requests[r].pc = "responded" /\ requests[r].response[1].status = s}

\* the line has a transaction_id, a sender and a receiver that differ, a positive
\* number as amount and a date as timestamp
WellFormed(line) ==
    /\ line.transaction_id # 0
    /\ line.sender_id # 0
    /\ line.receiver_id # 0
    /\ line.amount.kind = "number" /\ line.amount.n > 0
    /\ line.timestamp.kind = "number"
    /\ line.sender_id # line.receiver_id

\* the well-formed lines of the file of request r, in their order
GoodLinesOf(r) == SelectSeq(requests[r].file[1], WellFormed)

\* the requests that were answered and had uploaded a file
WithFile == {r \in Requests : requests[r].pc = "responded" /\ requests[r].file # <<>>}

C18_OnlyValidRowsInOrder ==
    \A r \in Answered(200) :
        LET txs  == requests[r].transactions
            good == GoodLinesOf(r)
        IN  /\ \A i \in 1..Len(txs) :
                  /\ txs[i].transaction_id # 0
                  /\ txs[i].sender_id # 0
                  /\ txs[i].receiver_id # 0
                  /\ ~txs[i].amount.nan /\ txs[i].amount.n > 0
                  /\ txs[i].timestamp.kind = "number"
                  /\ txs[i].sender_id # txs[i].receiver_id
            /\ Len(txs) = Len(good)
            /\ \A i \in 1..Len(txs) :
                  /\ txs[i].transaction_id = good[i].transaction_id
                  /\ txs[i].sender_id = good[i].sender_id
                  /\ txs[i].receiver_id = good[i].receiver_id
                  /\ txs[i].amount.n = good[i].amount.n
                  /\ txs[i].timestamp = good[i].timestamp
            /\ requests[r].response[1].results.summary.total_accounts_analyzed
                  = Cardinality({good[i].sender_id : i \in 1..Len(good)}
                                \cup {good[i].receiver_id : i \in 1..Len(good)})

\* an analysed file in which a self-transfer and another failing line stand
\* between lines that pass
C18_Witness ==
    \E r \in Answered(200) :
        LET lines == requests[r].file[1]
        IN  /\ Len(GoodLinesOf(r)) >= 2
            /\ \E i, j, k \in 1..Len(lines) :
                  /\ i < j /\ j < k
                  /\ WellFormed(lines[i])
                  /\ WellFormed(lines[k])
                  /\ lines[j].sender_id # 0
                  /\ lines[j].sender_id = lines[j].receiver_id
            /\ \E j \in 1..Len(lines) :
                  ~WellFormed(lines[j]) /\ lines[j].sender_id # lines[j].receiver_id

\* what analyze returns for the well-formed lines of the file of request r alone
OwnResults(r) ==
    {Analyze([i \in 1..Len(GoodLinesOf(r)) |->
                 Tx(GoodLinesOf(r)[i].transaction_id, GoodLinesOf(r)[i].sender_id,
                    GoodLinesOf(r)[i].receiver_id, GoodLinesOf(r)[i].amount.n,
                    GoodLinesOf(r)[i].timestamp.n)], elapsedMs) :
        elapsedMs \in {0, MaxElapsedMs}}

\* each answered analysis returned what analyze returns for its own transactions
C19_OwnResultsReturned ==
    \A r \in Answered(200) : requests[r].response[1].results \in OwnResults(r)

\* C19: two POST /api/analyze requests, interleaved in any way, share no state:
\* the results of each response are what analyze returns for the transactions
\* of that request alone, and each is stored under its own session id.
C19_RequestsIndependent ==
    /\ C19_OwnResultsReturned
    /\ \A r \in Answered(200) :
          LET sessionId == requests[r].response[1].sessionId
          IN  /\ sessionId \in DOMAIN resultsStore.val
              /\ resultsStore.val[sessionId] = requests[r].response[1].results
              /\ \A q \in Answered(200) \ {r} : requests[q].response[1].sessionId # sessionId

\* the accounts of the batch
Accounts ==
    {transactions[i].sender_id : i \in 1..Len(transactions)}
        \cup {transactions[i].receiver_id : i \in 1..Len(transactions)}

\* how many transactions go from a to b
Transfers(a, b) ==
    Cardinality({i \in 1..Len(transactions) :
                    transactions[i].sender_id = a /\ transactions[i].receiver_id = b})

\* how many transactions a sends
OutDegree(a) == Cardinality({i \in 1..Len(transactions) : transactions[i].sender_id = a})

\* the transfers round one triangle whose smallest account is s alone fill the
\* results array of the search that starts at s
FullAt(s) ==
    \* three counts whose product reaches MAX_RESULTS sum to at least the cube root of
    \* 27 * MAX_RESULTS
    /\ Len(transactions) * Len(transactions) * Len(transactions) >= 27 * MAX_RESULTS
    /\ \E a, b \in Accounts :
        /\ a > s /\ b > s /\ a # b
        /\ \A n \in {s, a, b} : OutDegree(n) <= MAX_OUT_DEGREE
        /\ Transfers(s, a) * Transfers(a, b) * Transfers(b, s) >= MAX_RESULTS

\* the least account of a cycle
Least(cycle) == CHOOSE n \in Range(cycle) : \A m \in Range(cycle) : n <= m

\* C16: CycleDetector.detect never returns more than 500 cycles; when the
\* enumeration reaches the cap it stops exploring (no cycle of a later start node
\* is returned), it returns normally, and the remaining stages run on the
\* truncated list up to the result: one raw ring per returned cycle, and a
\* result whose summary counts its rings.
C16_CycleCap ==
    pc \notin {"build", "cycles"} =>
        /\ Len(cycles) <= MAX_RESULTS
        /\ \A s \in Accounts :
              FullAt(s) =>
                  /\ \A i \in 1..Len(cycles) : Least(cycles[i]) <= s
                  /\ pc \notin {"smurfing", "shells", "rings"} =>
                        Cardinality({i \in 1..Len(fraudRings) : fraudRings[i].pattern_type = "cycle"})
                            = Len(cycles)
                  /\ pc = "done" =>
                        results[1].summary.fraud_rings_detected = Len(results[1].fraud_rings)

\* analyze() has returned for a batch that fills the results array at account 1
\* and has a cycle, 4-5-6, that starts later
C16_Witness ==
    /\ pc = "done"
    /\ FullAt(1)
    /\ Transfers(4, 5) > 0 /\ Transfers(5, 6) > 0 /\ Transfers(6, 4) > 0
    /\ Len(results[1].fraud_rings) = 1

\* the accounts that a sends to
Successors(a) ==
    {transactions[i].receiver_id : i \in {j \in 1..Len(transactions) : transactions[j].sender_id = a}}

\* the simple directed paths on k accounts that start at their least account
RECURSIVE PathsOn(_)
PathsOn(k) ==
    IF k = 1 THEN {<<s>> : s \in Accounts}
    ELSE UNION {{Append(p, m) : m \in {n \in Successors(Last(p)) : n > p[1] /\ n \notin Range(p)}} :
                   p \in PathsOn(k - 1)}

\* the simple directed cycles on 3 to 5 accounts, each written from its least account
SimpleCycles == {p \in PathsOn(3) \cup PathsOn(4) \cup PathsOn(5) : p[1] \in Successors(Last(p))}

\* C20: cycle enumeration is complete below the cap: when the graph (parallel
\* edges allowed) has fewer than 500 distinct simple directed cycles of length 3
\* to 5, detect returns every such cycle whose nodes all have out-degree at most
\* 30, written from its smallest node.
C20_CyclesComplete ==
    (pc = "smurfing" /\ Cardinality(SimpleCycles) < MAX_RESULTS) =>
        \A c \in SimpleCycles :
            (\A n \in Range(c) : OutDegree(n) <= MAX_OUT_DEGREE) =>
                \E i \in 1..Len(cycles) : cycles[i] = c

\* the one transaction from a to b
Hop(a, b) ==
    transactions[CHOOSE i \in 1..Len(transactions) :
                    transactions[i].sender_id = a /\ transactions[i].receiver_id = b]

\* the batch is nothing but one transfer per hop along the five distinct accounts
\* of c, the amounts do not rise and fall by at most 10,000 per hop, the
\* timestamps rise and span at most 24 hours
IsPureChain(c) ==
    /\ Len(transactions) = 4
    /\ Cardinality(Range(c)) = 5
    /\ \A k \in 1..4 : Transfers(c[k], c[k + 1]) = 1
    /\ \A k \in 1..3 :
          /\ Hop(c[k], c[k + 1]).amount >= Hop(c[k + 1], c[k + 2]).amount
          /\ Hop(c[k], c[k + 1]).amount - Hop(c[k + 1], c[k + 2]).amount <= 10000
          /\ Hop(c[k], c[k + 1]).timestamp < Hop(c[k + 1], c[k + 2]).timestamp
    /\ Hop(c[4], c[5]).timestamp - Hop(c[1], c[2]).timestamp <= 24

\* the chains that the batch is
PureChainsOfBatch ==
    {c \in {<<o, s1, s2, s3, e>> : o \in Accounts, s1 \in Accounts, s2 \in Accounts,
                                   s3 \in Accounts, e \in Accounts} : IsPureChain(c)}

\* C17: for a batch that is solely one chain O -> S1 -> S2 -> S3 -> E over five
\* distinct accounts (one transaction per hop, amounts non-increasing with each
\* drop at most 10,000, timestamps increasing within 24 hours) analyze returns
\* exactly one ring, of pattern_type shell_network, with members exactly
\* {O, S1, S2, S3, E}, chain_length 5 and risk_score at least 60, and S1, S2, S3
\* are in suspicious_accounts with the tag shell_intermediary.
C17_PureChainRing ==
    (pc = "done" /\ Len(transactions) = 4) =>
        \A c \in PureChainsOfBatch :
            /\ Len(results[1].fraud_rings) = 1
            /\ results[1].fraud_rings[1].pattern_type = "shell_network"
            /\ Members(results[1].fraud_rings[1]) = Range(c)
            /\ Len(results[1].fraud_rings[1].member_accounts) = 5
            /\ results[1].fraud_rings[1].chain_length = 5
            /\ results[1].fraud_rings[1].risk_score >= 60000
            /\ \A k \in 2..4 :
                  \E i \in 1..Len(results[1].suspicious_accounts) :
                     /\ results[1].suspicious_accounts[i].account_id = c[k]
                     /\ "shell_intermediary" \in Range(results[1].suspicious_accounts[i].detected_patterns)

\* analyze() has returned for a chain whose origin is not its least account, whose
\* amounts fall by 10,000 at every hop and whose timestamps span 24 hours
C17_Witness ==
    /\ pc = "done"
    /\ Len(transactions) = 4
    /\ \E c \in PureChainsOfBatch :
          /\ \E k \in 2..5 : c[k] < c[1]
          /\ \A k \in 1..3 : Hop(c[k], c[k + 1]).amount - Hop(c[k + 1], c[k + 2]).amount = 10000
          /\ Hop(c[4], c[5]).timestamp - Hop(c[1], c[2]).timestamp = 24

\* how many of the timestamps ts lie in the window of 72 hours that opens at ts[i]
\* and is closed at its end when closed is TRUE, open otherwise
InWindow(ts, i, closed) ==
    Cardinality({j \in 1..Len(ts) :
                    /\ ts[j] >= ts[i]
                    /\ IF closed THEN ts[j] <= ts[i] + 72 ELSE ts[j] < ts[i] + 72})

\* the largest count over the windows of ts
MaxInWindow(ts, closed) ==
    CHOOSE c \in {InWindow(ts, i, closed) : i \in 1..Len(ts)} :
        \A i \in 1..Len(ts) : c >= InWindow(ts, i, closed)

\* the velocity in thousandths that the result reports for every account is the
\* one of the window with the given end
VelocityByWindow(closed) ==
    pc = "done" =>
        \A k \in 1..Len(results[1].suspicious_accounts) :
            LET acc == results[1].suspicious_accounts[k]
                ts  == graph.nodeMetadata.val[acc.account_id].allTimestamps
            IN  acc.scoring_details.flow_ratio =
                    IF Len(ts) <= 1 THEN 1000
                    ELSE RoundDiv(1000 * MaxInWindow(ts, closed), Len(ts))

\* C21: the velocity V of an account with tx_count >= 2 is the maximum, over its
\* timestamps t, of the number of its timestamps in the right-open window
\* [t, t + 72h), divided by tx_count: a timestamp exactly 72 hours after t is not
\* counted, timestamps equal to t are; for tx_count <= 1, V = 1.
C21_VelocityRightOpen == VelocityByWindow(FALSE)

-----------------------------------------------------------------------------
(* ScoringEngine._computePatternModifier on its own: one account's tag     *)
(* list, reordered and lengthened by repeats between calls.                *)

\* tags in the list of the first call
MaxTags == 2

\* the longest list reached by repeating tags
MaxTagLen == 4

\* every tag _addAccountSuspicion is called with
Tags ==
    {"cycle_length_3", "cycle_length_5", "fan_in", "fan_out", "shell_intermediary",
     "shell_network_endpoint", "high_velocity"}

\* meta.txCount on both sides of the shell test (txCount <= 3)
TxCounts == {1, 3, 4}

TagLists == UNION {[1..n -> Tags] : n \in 0..MaxTags}

\* no engine runs
EngineIdle ==
    /\ transactions = <<>>
    /\ results = <<>>
    /\ pc = "build"
    /\ graph = NoGraph
    /\ cycles = <<>>
    /\ smurfingGroups = <<>>
    /\ shellChains = <<>>
    /\ fraudRings = <<>>
    /\ accountSuspicionMap = EmptyMap
    /\ legit = NoLegit
    /\ filteredAccounts = <<>>
    /\ filteredRings = <<>>
    /\ ringsWithIds = <<>>
    /\ scoredAccounts = <<>>
    /\ scoredRings = <<>>
    /\ run = "first"
    /\ firstInput = <<>>
    /\ firstResults = <<>>

\* no engine runs and no request is served
Idle ==
    /\ EngineIdle
    /\ requests = <<>>
    /\ resultsStore = EmptyMap
    /\ now = 0
    /\ calls = <<>>

ModifierInit ==
    /\ Idle
    /\ modifier \in {[detectedPatterns |-> tags, txCount |-> n, pm |-> <<>>, pmFirst |-> <<>>] :
                        tags \in TagLists, n \in TxCounts}

\* const pm = this._computePatternModifier(detectedPatterns, meta)
CallModifier ==
    /\ modifier.pm = <<>>
    /\ \E pm \in {ComputePatternModifier(modifier.detectedPatterns,
                                         [txCount |-> modifier.txCount])} :
           modifier' = [modifier EXCEPT !.pm = <<pm>>,
                                        !.pmFirst = IF @ = <<>> THEN <<pm>> ELSE @]
    /\ UNCHANGED <<engineVars, hostVars>>

\* the same tags in another order, for the next call
ReorderTags(i, j) ==
    /\ modifier.pm # <<>>
    /\ i < j
    /\ modifier.detectedPatterns[i] # modifier.detectedPatterns[j]
    /\ modifier' = [modifier EXCEPT !.detectedPatterns = Swap(@, i, j), !.pm = <<>>]
    /\ UNCHANGED <<engineVars, hostVars>>

\* one tag of the list once more, for the next call
RepeatTag(i) ==
    /\ modifier.pm # <<>>
    /\ Len(modifier.detectedPatterns) < MaxTagLen
    /\ modifier' = [modifier EXCEPT !.detectedPatterns = Append(@, @[i]), !.pm = <<>>]
    /\ UNCHANGED <<engineVars, hostVars>>

ModifierNext ==
    \/ CallModifier
    \/ \E i, j \in 1..Len(modifier.detectedPatterns) : ReorderTags(i, j)
    \/ \E i \in 1..Len(modifier.detectedPatterns) : RepeatTag(i)

ModifierSpec == ModifierInit /\ [][ModifierNext]_vars

\* the modifier of a set of tags: each role counted once
ModifierOfTagSet(tagSet, txCount) ==
      (IF tagSet \cap {"cycle_length_3", "cycle_length_4", "cycle_length_5"} # {} THEN 20 ELSE 0)
    + (IF "fan_in" \in tagSet THEN 25 ELSE 0)
    + (IF "fan_out" \in tagSet THEN 25 ELSE 0)
    + (IF tagSet \cap {"shell_intermediary", "shell_network_endpoint"} = {} THEN 0
       ELSE IF txCount <= 3 THEN 30 ELSE 15)

-----------------------------------------------------------------------------
(* Stage 1 before Stage 2.                                                  *)

\* the account ids of a list of account records
IdsOf(accounts) == {accounts[i].account_id : i \in 1..Len(accounts)}

\* every member of every ring of the list is an account of the list
MembersAreAccounts(rings, accounts) ==
    \A i \in 1..Len(rings) : Range(rings[i].member_accounts) \subseteq IdsOf(accounts)

\* C23: Stage 2 runs only after Stage 1 has scored every account: before the
\* accounts are scored no ring is scored, when scoreAllRings is about to run
\* every filtered account and every member of every ring has a Stage-1 score,
\* and each member of each ring in fraud_rings is present in suspicious_accounts
\* (the default of 0 for a missing member score is never used).
C23_MembersScoredFirst ==
    /\ pc \notin {"scoreRings", "finish", "done"} => scoredRings = <<>>
    /\ pc = "scoreRings" =>
           /\ IdsOf(filteredAccounts) = IdsOf(scoredAccounts)
           /\ MembersAreAccounts(ringsWithIds, scoredAccounts)
    /\ pc \in {"finish", "done"} => MembersAreAccounts(scoredRings, scoredAccounts)
    /\ pc = "done" =>
           MembersAreAccounts(results[1].fraud_rings, results[1].suspicious_accounts)

\* a finished run with a scored ring that lost a member to the filter and whose
\* remaining members all have an account entry
C23_Witness ==
    /\ pc = "done"
    /\ \E i \in 1..Len(results[1].fraud_rings) :
           /\ Range(results[1].fraud_rings[i].member_accounts)
                  \subseteq IdsOf(results[1].suspicious_accounts)
           /\ \E j \in 1..Len(fraudRings) :
                  /\ Range(results[1].fraud_rings[i].member_accounts)
                         \subseteq Range(fraudRings[j].member_accounts)
                  /\ Range(results[1].fraud_rings[i].member_accounts)
                         # Range(fraudRings[j].member_accounts)

-----------------------------------------------------------------------------
(* High out-degree nodes and the cycle search.                             *)

\* C24: no cycle returned by detect contains a node whose out-degree, counted
\* with multiplicity, exceeds 30: such a node is neither a seed nor a next hop.
C24_NoBusyNodeOnCycle ==
    pc \notin {"build", "cycles"} =>
        \A i \in 1..Len(cycles) : \A k \in 1..Len(cycles[i]) :
            OutDegree(cycles[i][k]) <= MAX_OUT_DEGREE

\* the search has run on a batch with a triangle through an account that sends
\* more than 30 transfers, and has returned another cycle but not that triangle
C24_Witness ==
    /\ pc = "smurfing"
    /\ cycles # <<>>
    /\ \E a, b, c \in Accounts :
           /\ Transfers(a, b) > 0 /\ Transfers(b, c) > 0 /\ Transfers(c, a) > 0
           /\ a < b /\ a < c
           /\ OutDegree(b) > MAX_OUT_DEGREE
           /\ OutDegree(a) <= MAX_OUT_DEGREE
           /\ \A i \in 1..Len(cycles) : cycles[i] # <<a, b, c>>

-----------------------------------------------------------------------------
(* The hubs of the smurfing groups.                                        *)

\* the accounts that send to a, and those that a sends to
SendersTo(a) ==
    {transactions[i].sender_id : i \in {j \in 1..Len(transactions) : transactions[j].receiver_id = a}}

ReceiversFrom(a) ==
    {transactions[i].receiver_id : i \in {j \in 1..Len(transactions) : transactions[j].sender_id = a}}

\* the hub of a group: the aggregator of a fan_in or combined group, the disperser
\* of a fan_out group
HubOf(group) == IF group.type = "fan_out" THEN group.disperserNode[1] ELSE group.aggregatorNode[1]

\* C25: a fan_in_fan_out group is emitted for a node only if it has at least 10
\* unique senders and at least 10 unique receivers and is not the hub of an
\* emitted fan_in or fan_out group; no node is the hub of both a single-direction
\* group and a combined group; every fan_in hub has at least 10 unique senders and
\* every fan_out hub at least 10 unique receivers.
C25_HubsOfGroups ==
    pc \notin {"build", "cycles", "smurfing"} =>
        \A i \in 1..Len(smurfingGroups) :
            LET group == smurfingGroups[i]
                hub   == HubOf(group)
            IN  /\ group.type = "fan_in" => Cardinality(SendersTo(hub)) >= FAN_THRESHOLD
                /\ group.type = "fan_out" => Cardinality(ReceiversFrom(hub)) >= FAN_THRESHOLD
                /\ group.type = "fan_in_fan_out" =>
                       /\ Cardinality(SendersTo(hub)) >= FAN_THRESHOLD
                       /\ Cardinality(ReceiversFrom(hub)) >= FAN_THRESHOLD
                       /\ group.disperserNode = <<hub>>
                       /\ \A j \in 1..Len(smurfingGroups) :
                              smurfingGroups[j].type \in {"fan_in", "fan_out"} =>
                                  HubOf(smurfingGroups[j]) # hub

\* a combined group has been emitted for a node with 10 senders and 10 receivers
C25_Witness ==
    /\ pc = "shells"
    /\ \E i \in 1..Len(smurfingGroups) : smurfingGroups[i].type = "fan_in_fan_out"

\* a node with 10 senders and 10 receivers is the hub of a fan_in group, and no
\* combined group has been emitted for it
C25_WitnessSuppressed ==
    /\ pc = "shells"
    /\ \E i \in 1..Len(smurfingGroups) :
           /\ smurfingGroups[i].type = "fan_in"
           /\ Cardinality(SendersTo(HubOf(smurfingGroups[i]))) >= FAN_THRESHOLD
           /\ Cardinality(ReceiversFrom(HubOf(smurfingGroups[i]))) >= FAN_THRESHOLD
    /\ \A i \in 1..Len(smurfingGroups) : smurfingGroups[i].type # "fan_in_fan_out"

-----------------------------------------------------------------------------
(* Legitimate hubs and their counterparties.                               *)

\* the accounts found by the merchant, payroll and exchange detectors
DetectedHubs == Merchants(graph) \cup Payrolls(graph) \cup Exchanges(graph)

\* the legitimate accounts that are not hubs
SweptCounterparties == legit.legitimateAccounts \ DetectedHubs

\* the members of a ring that are not legitimate accounts, in order
RemainingMembers(ring) ==
    SelectSeq(ring.member_accounts, LAMBDA id : id \notin legit.legitimateAccounts)

\* the ring has no detected hub as central node or as member
HubFree(ring) ==
    /\ CentralNode(ring) = <<>> \/ CentralNode(ring)[1] \notin DetectedHubs
    /\ Range(ring.member_accounts) \cap DetectedHubs = {}

\* C26: the counterparty sweep adds accounts only to legitimate_accounts, never
\* to legitimate_hubs, and legitimate_hubs is a subset of legitimate_accounts; a
\* ring whose only legitimate members are swept counterparties is not discarded
\* wholesale: it loses those members and survives if at least 3 members remain.
C26_CounterpartiesOnlySuppressed ==
    pc \in {"filter", "merge", "scoreAccounts", "scoreRings", "finish", "done"} =>
        /\ legit.legitimateHubs = DetectedHubs
        /\ legit.legitimateHubs \subseteq legit.legitimateAccounts
        /\ pc # "filter" =>
               \A i \in 1..Len(fraudRings) :
                   HubFree(fraudRings[i]) =>
                       LET kept == {j \in 1..Len(filteredRings) :
                                       filteredRings[j].ring_id = fraudRings[i].ring_id}
                       IN  IF Len(RemainingMembers(fraudRings[i])) >= 3
                           THEN \E j \in kept :
                                   filteredRings[j].member_accounts
                                       = RemainingMembers(fraudRings[i])
                           ELSE kept = {}

\* a ring without a hub has lost a swept counterparty and survived
C26_Witness ==
    /\ pc = "merge"
    /\ \E i \in 1..Len(fraudRings) :
           /\ HubFree(fraudRings[i])
           /\ Range(fraudRings[i].member_accounts) \cap SweptCounterparties # {}
           /\ \E j \in 1..Len(filteredRings) :
                  /\ filteredRings[j].ring_id = fraudRings[i].ring_id
                  /\ Len(filteredRings[j].member_accounts) >= 3
                  /\ Len(filteredRings[j].member_accounts) < Len(fraudRings[i].member_accounts)

-----------------------------------------------------------------------------
(* The graph after build().                                                *)

\* C27: after GraphBuilder.build returns, no later stage changes the adjacency
\* lists, the reverse lists or the node metadata, including the order of the edge
\* lists and of allTimestamps: at every later point of analyze() the graph is the
\* one build() returns for the transactions.
C27_GraphUnchangedAfterBuild ==
    pc # "build" => graph = GraphBuild(transactions)

\* analyze() has finished with a ring on a graph in which some account's incoming
\* edges are not in the order of their timestamps
C27_Witness ==
    /\ pc = "done"
    /\ results[1].fraud_rings # <<>>
    /\ \E n \in DOMAIN graph.reverseAdjList.val :
           \E i, j \in 1..Len(graph.reverseAdjList.val[n]) :
               /\ i < j
               /\ graph.reverseAdjList.val[n][i].timestamp
                      > graph.reverseAdjList.val[n][j].timestamp

-----------------------------------------------------------------------------
(* The ratios of the node metadata.                                        *)

\* a metadata value that holds a fraction, not null
IsFraction(r) == DOMAIN r = {"num", "den"}

\* what holds of every node's metadata once the graph is built; unsetWithoutReceipts
\* says whether a node that received nothing has no throughput ratio or the ratio 0
MetadataRatios(unsetWithoutReceipts) ==
    pc # "build" =>
        \A n \in DOMAIN graph.nodeMetadata.val :
            LET meta == graph.nodeMetadata.val[n]
            IN  /\ meta.totalReceived > 0 =>
                       /\ IsFraction(meta.throughputRatio)
                       /\ meta.throughputRatio.num = meta.totalSent
                       /\ meta.throughputRatio.den = meta.totalReceived
                /\ meta.totalReceived = 0 =>
                       IF unsetWithoutReceipts THEN ~IsFraction(meta.throughputRatio)
                       ELSE IsFraction(meta.throughputRatio) /\ meta.throughputRatio.num = 0
                /\ Len(meta.allTimestamps) < 2 => meta.minTimeDeltaMs = <<>>
                /\ Len(meta.allTimestamps) >= 2 => Len(meta.minTimeDeltaMs) = 1

\* C28: in node metadata, throughput_ratio equals total_sent / total_received
\* when total_received > 0 and is unset (no numeric value) when total_received
\* is 0; min_time_delta is unset when the account has fewer than 2 timestamps.
C28_RatioUnsetWithoutReceipts == MetadataRatios(TRUE)

-----------------------------------------------------------------------------
(* The ring of each suspicious account.                                    *)

\* C29: in the result of analyze, every account in suspicious_accounts is a
\* member of at least one ring in fraud_rings, and its ring_id is the id of a
\* ring in fraud_rings whose member_accounts contains that account, also when
\* the account's original ring was discarded by the filter or renumbered after
\* merging.
C29_AccountsBelongToTheirRing ==
    pc = "done" =>
        \A k \in 1..Len(results[1].suspicious_accounts) :
            LET acc == results[1].suspicious_accounts[k]
            IN  \E i \in 1..Len(results[1].fraud_rings) :
                    /\ acc.account_id \in Range(results[1].fraud_rings[i].member_accounts)
                    /\ acc.ring_id = results[1].fraud_rings[i].ring_id

-----------------------------------------------------------------------------
(* The results store over many calls: POST /api/analyze and                *)
(* GET /api/results/:sessionId served one after the other, on a store that  *)
(* earlier analyses have filled.                                           *)

\* the calls served after those that filled the store
MaxCalls == 3

\* the three lines of MixedCsv that pass every check
TriangleCsv == Without(MixedCsv, (1..Len(MixedCsv)) \ GoodLines)

\* the uploads: no file, an empty file, and two files of valid rows
CallFiles == {<<>>, << <<>> >>, <<SquareCsv>>, <<TriangleCsv>>}

\* how many analyses have succeeded before
PriorCounts == {0, MAX_STORED - 1, MAX_STORED + 1}

\* what an earlier analysis stored
PriorResults == Analyze(EngineBatch(ValidateTransactions(ParseCSV(SquareCsv)).transactions), 0)

\* the n earlier successful calls, one per millisecond before time 0
PriorCalls(n) ==
    [k \in 1..n |->
        [method |-> "POST", prior |-> TRUE,
         response |-> [status |-> 200, success |-> TRUE, sessionId |-> <<k - n - 1, 0>>,
                       results |-> PriorResults]]]

\* the store after the successful calls of cs
RECURSIVE StoreAfter(_)
StoreAfter(cs) ==
    IF cs = <<>> THEN EmptyMap
    ELSE \* the store is built before the next entry is set
         LET before == StoreAfter(SubSeq(cs, 1, Len(cs) - 1))
         IN  IF Len(before.keys) >= 0
             THEN StoreResults(before, Last(cs).response.sessionId, Last(cs).response.results)
             ELSE before

StoreInit ==
    /\ EngineIdle
    /\ requests = <<>>
    /\ now = 0
    /\ modifier = NoModifier
    /\ \E n \in PriorCounts :
          /\ calls = PriorCalls(n)
          /\ resultsStore = StoreAfter(calls)

\* the calls served by the model itself
OwnCalls == SelectSeq(calls, LAMBDA c : ~c.prior)

\* POST /api/analyze, from the upload to the response
HandlePost(file) ==
    /\ Len(OwnCalls) < MaxCalls
    /\ IF file = <<>>
       THEN /\ calls' = Append(calls, [method |-> "POST", prior |-> FALSE,
                                       response |-> [status |-> 400,
                                                     error |-> "No CSV file provided"]])
            /\ UNCHANGED <<resultsStore, now>>
       ELSE \E validation \in {ValidateTransactions(ParseCSV(file[1]))} :
               IF ~validation.valid
               THEN /\ calls' = Append(calls, [method |-> "POST", prior |-> FALSE,
                                               response |-> [status |-> 400,
                                                             error |-> validation.error]])
                    /\ UNCHANGED <<resultsStore, now>>
               ELSE \E elapsedMs \in {0, MaxElapsedMs} :
                       \E res \in {Analyze(EngineBatch(validation.transactions), elapsedMs)} :
                          \E random \in 0..MaxRandom :
                             LET sessionId == <<now + elapsedMs, random>>
                             IN  /\ now' = now + elapsedMs
                                 /\ resultsStore' = StoreResults(resultsStore, sessionId, res)
                                 /\ calls' = Append(calls,
                                        [method |-> "POST", prior |-> FALSE,
                                         response |-> [status |-> 200, success |-> TRUE,
                                                       sessionId |-> sessionId,
                                                       results |-> res]])
    /\ UNCHANGED <<requests, engineVars, modifier>>

\* GET /api/results/:sessionId
HandleGet(sessionId) ==
    /\ Len(OwnCalls) < MaxCalls
    /\ calls' = Append(calls,
           [method |-> "GET", prior |-> FALSE, sessionId |-> sessionId,
            response |-> IF sessionId \in DOMAIN resultsStore.val
                         THEN [status |-> 200, results |-> resultsStore.val[sessionId]]
                         ELSE [status |-> 404, error |-> "Results not found or expired"]])
    /\ UNCHANGED <<requests, resultsStore, now, engineVars, modifier>>

\* the successful analyses, oldest first
Analyses == SelectSeq(calls, LAMBDA c : c.method = "POST" /\ c.response.status = 200)

\* a session id that no analysis was given
UnknownId == <<0 - MAX_STORED - 2, 0>>

\* the session ids asked for: that of the oldest analysis, that of the latest, and
\* an unknown one
LookupIds ==
    {UnknownId} \cup (IF Analyses = <<>> THEN {}
                      ELSE {Analyses[1].response.sessionId, Last(Analyses).response.sessionId})

StoreNext ==
    \/ \E file \in CallFiles : HandlePost(file)
    \/ \E sessionId \in LookupIds : HandleGet(sessionId)
    \/ Tick

StoreSpec == StoreInit /\ [][StoreNext]_vars

\* the most recent successful analyses, at most MAX_STORED of them, oldest first
RecentAnalyses ==
    SubSeq(Analyses,
           IF Len(Analyses) > MAX_STORED THEN Len(Analyses) - MAX_STORED + 1 ELSE 1,
           Len(Analyses))

\* the store holds one entry per recent analysis, in their order, and the last
\* call, if a GET, was answered from these entries
StoreHoldsRecentAnalyses ==
    /\ Len(resultsStore.keys) <= MAX_STORED
    /\ resultsStore.keys = [i \in 1..Len(RecentAnalyses) |-> RecentAnalyses[i].response.sessionId]
    /\ \A i \in 1..Len(RecentAnalyses) :
           resultsStore.val[RecentAnalyses[i].response.sessionId]
               = RecentAnalyses[i].response.results
    /\ (calls # <<>> /\ Last(calls).method = "GET") =>
           LET hits == {i \in 1..Len(RecentAnalyses) :
                           RecentAnalyses[i].response.sessionId = Last(calls).sessionId}
           IN  IF hits = {} THEN Last(calls).response.status = 404
               ELSE \A i \in hits :
                       Last(calls).response
                           = [status |-> 200, results |-> RecentAnalyses[i].response.results]

\* no two successful analyses were given the same session id
SessionIdsDiffer ==
    \A i, j \in 1..Len(Analyses) :
        i # j => Analyses[i].response.sessionId # Analyses[j].response.sessionId

\* the store is as stated as long as the session ids differ
StoreHoldsRecentWhenIdsDiffer == SessionIdsDiffer => StoreHoldsRecentAnalyses

\* C30: after any sequence of POST /api/analyze requests the results store holds
\* at most 20 entries, namely those of the most recent successful analyses (the
\* oldest-inserted entry is evicted first); GET /api/results/:sessionId returns
\* exactly the results stored for a retained session and 404 for an unknown or
\* evicted one; a request that is rejected leaves the store unchanged.
C30_StoreHoldsMostRecent == StoreHoldsRecentAnalyses

====
